---------------------------- MODULE Spec2Model ----------------------------
(***************************************************************************)
(* Model of the scheduled detection path of BSCActiveTokensAnalyzer        *)
(* (src/bsc_active_tokens_analyzer.js): the candle cache (klineCache), the *)
(* alignment-state map (emaStatusCache), the EMA calculator, the           *)
(* initialisation loop and the timer-driven detection cycles; further on,  *)
(* the metadata lookups of getTokenInfo and the two stateless detectors    *)
(* (checkEMASignal of the main file and of src/unnamed/part_000).          *)
(*                                                                         *)
(* Prices are integers in micro-units (1000000 = 1.0); the JavaScript      *)
(* double division is modelled by integer division on these units.  A      *)
(* candle carries the two fields the detector reads, timestamp and close.  *)
(* Candle timestamps are small integers, one per 15-minute bucket.         *)
(*                                                                         *)
(* One action is one synchronous segment of the event loop: the code that  *)
(* runs between two awaits that wait for the network or for a timer.       *)
(***************************************************************************)
EXTENDS Integers, Sequences, FiniteSets, TLC

(***************************************************************************)
(* Bounds of the model.                                                    *)
(***************************************************************************)
NumTokens == 2          \* instruments taken from the head of the static list
MaxRuns == 2            \* executions of runScheduledAnalysis in one behaviour
MaxNewCandles == 2      \* candles newer than the bulk fetch that the upstream serves
MaxExtra == 1           \* rows a bulk response may hold beyond the 144 asked for
MaxPeriod == 4          \* periods of the calls of calculateEMA on its own
MaxLen == 5             \* length of their price sequences
MaxFlat == 9            \* flat candles the step scenario serves before its rise
MaxTicks == 3           \* calls of the interval callback with a clock reading
MaxTail == 3            \* closes that vary at the end of the windows given to
                        \* calculateEMAStatus on its own
MaxRetriesArg == 4      \* greatest maxRetries a metadata lookup is called with

(***************************************************************************)
(* Program constants.                                                      *)
(***************************************************************************)
WindowSize == 144       \* candles kept per instrument
PeriodShort == 21
PeriodMid == 55
PeriodLong == 144
StatusKeep == 10        \* alignment states kept per instrument by the cleanup
DefaultMaxRetries == 3  \* default of the parameter maxRetries of the metadata lookups
FetchLimit == 147       \* candles the stateless detectors ask for and need

\* A JavaScript value that may be null or undefined is a sequence of at most
\* one element: <<>> is the absent value, <<v>> the value v.
Null == <<>>
Undefined == <<>>
Some(v) == <<v>>

\* The JavaScript number NaN, which parseInt and parseFloat return for a
\* field that holds no number, and the field of a row that holds no number.
\* Timestamps and prices are never negative.
NaN == -1
NonNumeric == -2

\* arithmetic and comparison of JavaScript numbers: NaN propagates through
\* + and /, and every comparison with NaN is false
Plus(a, b) == IF a = NaN \/ b = NaN THEN NaN ELSE a + b

Div(a, b) == IF a = NaN THEN NaN ELSE a \div b

Leq(a, b) == a # NaN /\ b # NaN /\ a <= b

Lt(a, b) == a # NaN /\ b # NaN /\ a < b

Gt(a, b) == a # NaN /\ b # NaN /\ a > b

Runs == 1..MaxRuns

\* getTopVolumeBSCTokens: the static ordered address list; an address is
\* represented by its position in the list.
getTopVolumeBSCTokens == [i \in 1..NumTokens |-> i]

Tokens == {getTopVolumeBSCTokens[i] : i \in 1..NumTokens}

(***************************************************************************)
(* The upstream candle API.  A response is either a failure (transport     *)
(* error, timeout, error code) or a list of rows, newest first.            *)
(***************************************************************************)
\* timestamp of the newest candle of every bulk response
BulkNewestTs == WindowSize + MaxExtra

\* a row of the response: the position of a value in the row is the one the
\* code reads it from (candle[0] is the timestamp, candle[4] the close)
Row(ts, c) == <<ts, 0, 0, 0, c, 0, 0>>

\* rows lo..hi of a bulk response, newest first: the newest row closes at c,
\* the older ones at 1.0
RECURSIVE BulkRows(_, _, _)
BulkRows(c, lo, hi) ==
    IF lo > hi THEN <<>>
    ELSE IF lo = hi
    THEN <<Row(BulkNewestTs - (lo - 1), IF lo = 1 THEN c ELSE 1000000)>>
    ELSE LET mid == (lo + hi) \div 2
         IN BulkRows(c, lo, mid) \o BulkRows(c, mid + 1, hi)

Failure == [ok |-> FALSE, rows |-> <<>>]

\* a row that is null instead of an array
NullRow == <<>>

\* the answers to the bulk request: a failure, one row too few, the 144 rows
\* asked for (not aligned, aligned), and up to MaxExtra rows too many
BulkResponses ==
    {Failure,
     [ok |-> TRUE, rows |-> BulkRows(1000000, 1, WindowSize - 1)],
     [ok |-> TRUE, rows |-> BulkRows(1000000, 1, WindowSize)],
     [ok |-> TRUE, rows |-> BulkRows(2000000, 1, WindowSize)]} \cup
    {[ok |-> TRUE, rows |-> BulkRows(1000000, 1, WindowSize + k)] : k \in 1..MaxExtra}

ClosePrices == {0, 2000000}

\* The answers to the request for the latest candle of an instrument whose
\* window is cachedKlines (empty when it has none): a failure, an empty list,
\* a candle served before (the upstream does not change a closed candle), or
\* the candle of the next 15-minute bucket.
NewestServed(cachedKlines) ==
    LET n == Len(cachedKlines)
        seen == {BulkNewestTs} \cup
                {cachedKlines[i].timestamp : i \in {j \in (n - MaxNewCandles)..n : j >= 1}}
    IN CHOOSE m \in seen : \A x \in seen : x <= m

LatestResponses(cachedKlines) ==
    LET n == Len(cachedKlines)
        newest == NewestServed(cachedKlines)
        served == {cachedKlines[i] :
                     i \in {j \in (n - MaxNewCandles)..n :
                              j >= 1 /\ cachedKlines[j].timestamp >= BulkNewestTs}}
    IN {Failure, [ok |-> TRUE, rows |-> <<>>]}
       \cup {[ok |-> TRUE, rows |-> <<Row(k.timestamp, k.close)>>] : k \in served}
       \cup {[ok |-> TRUE, rows |-> <<Row(newest + 1, c)>>] : c \in ClosePrices}

\* The malformed answers to the request for the latest candle: a row whose
\* timestamp is no number, a row that ends before its close, and a row that
\* is null.
MalformedResponses(cachedKlines) ==
    {[ok |-> TRUE, rows |-> <<Row(NonNumeric, 2000000)>>],
     [ok |-> TRUE, rows |-> <<<<NewestServed(cachedKlines) + 1>>>>],
     [ok |-> TRUE, rows |-> <<NullRow>>]}

\* parseInt and parseFloat of field i (1-based) of a row: NaN when the row has
\* no such field or the field holds no number
parseField(row, i) ==
    IF i > Len(row) THEN NaN
    ELSE IF row[i] = NonNumeric THEN NaN
    ELSE row[i]

\* lines 182-189: the candle of a row
candleOf(row) == [timestamp |-> parseField(row, 1), close |-> parseField(row, 5)]

\* variant of mapReverse: the candles stay in the order of the rows
RECURSIVE mapKeepOrder(_, _, _)
mapKeepOrder(rows, lo, hi) ==
    IF lo > hi THEN <<>>
    ELSE IF lo = hi
    THEN <<candleOf(rows[lo])>>
    ELSE LET mid == (lo + hi) \div 2
         IN mapKeepOrder(rows, lo, mid) \o mapKeepOrder(rows, mid + 1, hi)

\* response.data.data.map(...).reverse() on rows lo..hi: the candles of the
\* rows, last row first
RECURSIVE mapReverse(_, _, _)
mapReverse(rows, lo, hi) ==
    IF lo > hi THEN <<>>
    ELSE IF lo = hi
    THEN <<candleOf(rows[lo])>>
    ELSE LET mid == (lo + hi) \div 2
         IN mapReverse(rows, mid + 1, hi) \o mapReverse(rows, lo, mid)

\* getKlineData: on success maps every row to a candle and reverses the list
\* into ascending order; every failure yields the empty list, and so does a
\* row that is null, on which candle[0] throws inside the try block.
getKlineData(response) ==
    IF response.ok /\ \A i \in 1..Len(response.rows) : response.rows[i] # NullRow
    THEN mapReverse(response.rows, 1, Len(response.rows))
    ELSE <<>>

(***************************************************************************)
(* EMA calculator.                                                         *)
(***************************************************************************)
\* The two loops of calculateEMA are evaluated by halving their index range:
\* the iterations run in the order of the code, the nesting stays shallow.

\* prices[lo] + ... + prices[hi], the accumulation of the loop of lines 335-338
RECURSIVE SumRange(_, _, _)
SumRange(prices, lo, hi) ==
    IF lo > hi THEN 0
    ELSE IF lo = hi THEN prices[lo]
    ELSE LET mid == (lo + hi) \div 2
         IN Plus(SumRange(prices, lo, mid), SumRange(prices, mid + 1, hi))

\* variant of emaStep: multiplier = 2 / period
emaStepByPeriod(price, previous, period) ==
    IF price = NaN \/ previous = NaN THEN NaN
    ELSE (2 * price + (period - 2) * previous) \div period

\* line 343, one iteration: multiplier = 2 / (period + 1), so
\* price * multiplier + previous * (1 - multiplier)
\*   = (2 * price + (period - 1) * previous) / (period + 1)
emaStep(price, previous, period) ==
    IF price = NaN \/ previous = NaN THEN NaN
    ELSE (2 * price + (period - 1) * previous) \div (period + 1)

\* iterations lo..hi (1-based) of the loop of lines 342-344: the entries
\* ema[lo..hi], given previous = ema[lo - 1]
RECURSIVE emaLoop(_, _, _, _, _)
emaLoop(prices, period, previous, lo, hi) ==
    IF lo > hi THEN <<>>
    ELSE IF lo = hi
    THEN <<Some(emaStep(prices[lo], previous, period))>>
    ELSE LET mid == (lo + hi) \div 2
             firstHalf == emaLoop(prices, period, previous, lo, mid)
         IN firstHalf \o emaLoop(prices, period, firstHalf[Len(firstHalf)][1], mid + 1, hi)

\* variant of calculateEMA: a sequence shorter than the period yields the
\* mean of the prices there are
calculateEMAPartial(prices, period) ==
    IF Len(prices) < period
    THEN <<Some(Div(SumRange(prices, 1, Len(prices)), period))>>
    ELSE LET sma == Div(SumRange(prices, 1, period), period)
         IN [i \in 1..(period - 1) |-> Null] \o <<Some(sma)>>
                \o emaLoop(prices, period, sma, period + 1, Len(prices))

\* lines 321-347
calculateEMA(prices, period) ==
    IF Len(prices) < period THEN <<>>
    ELSE LET sma == Div(SumRange(prices, 1, period), period)
         IN [i \in 1..(period - 1) |-> Null] \o <<Some(sma)>>
                \o emaLoop(prices, period, sma, period + 1, Len(prices))

\* klineData.map(candle => candle.close), entries lo..hi
RECURSIVE closesOf(_, _, _)
closesOf(klineData, lo, hi) ==
    IF lo > hi THEN <<>>
    ELSE IF lo = hi THEN <<klineData[lo].close>>
    ELSE LET mid == (lo + hi) \div 2
         IN closesOf(klineData, lo, mid) \o closesOf(klineData, mid + 1, hi)

At(arr, i) == IF i \in DOMAIN arr THEN arr[i] ELSE Undefined

\* variant of Bullish: equal values count as aligned
BullishNonStrict(e21, e55, e144) == ~Lt(e21, e55) /\ ~Lt(e55, e144)

\* line 267
Bullish(e21, e55, e144) == Gt(e21, e55) /\ Gt(e55, e144)

calculateEMAStatus(klineData) ==
    IF Len(klineData) < WindowSize THEN Null
    ELSE LET closePrices == closesOf(klineData, 1, Len(klineData))
             latestIndex == Len(closePrices)
             latestEMA21 == At(calculateEMA(closePrices, PeriodShort), latestIndex)
             latestEMA55 == At(calculateEMA(closePrices, PeriodMid), latestIndex)
             latestEMA144 == At(calculateEMA(closePrices, PeriodLong), latestIndex)
         IN IF latestEMA21 = Null \/ latestEMA55 = Null \/ latestEMA144 = Null
            THEN Null
            ELSE Some([bullish |-> Bullish(latestEMA21[1], latestEMA55[1], latestEMA144[1]),
                       ema21 |-> latestEMA21[1],
                       ema55 |-> latestEMA55[1],
                       ema144 |-> latestEMA144[1],
                       timestamp |-> klineData[latestIndex].timestamp,
                       price |-> closePrices[latestIndex]])

(***************************************************************************)
(* Maps.  klineCache maps every address to its window, the empty sequence  *)
(* standing for an address without a key.  emaStatusCache is a function    *)
(* whose domain is the set of keys <<address, timestamp>> (the code builds *)
(* the string address_timestamp_prev from the same two values).            *)
(***************************************************************************)
StatusKey(tokenAddress, timestamp) == <<tokenAddress, timestamp>>

MapGet(m, k) == IF k \in DOMAIN m THEN Some(m[k]) ELSE Undefined

MapSet(m, k, v) == [x \in DOMAIN m \cup {k} |-> IF x = k THEN v ELSE m[x]]

\* variant of cleanupEMAStatusCache: the keys are sorted by ascending
\* timestamp, so the first StatusKeep that are kept are the oldest
cleanupEMAStatusCacheKeepOldest(statusCache, tokenAddress) ==
    LET keys == {k \in DOMAIN statusCache : k[1] = tokenAddress}
        rank(k) == Cardinality({x \in keys : x[2] < k[2]})
        keysToDelete == {k \in keys : rank(k) >= StatusKeep}
    IN [k \in DOMAIN statusCache \ keysToDelete |-> statusCache[k]]

\* cleanupEMAStatusCache: the keys of the address sorted by descending
\* timestamp, all but the first StatusKeep deleted.
cleanupEMAStatusCache(statusCache, tokenAddress) ==
    LET keys == {k \in DOMAIN statusCache : k[1] = tokenAddress}
        rank(k) == Cardinality({x \in keys : x[2] > k[2]})
        keysToDelete == {k \in keys : rank(k) >= StatusKeep}
    IN [k \in DOMAIN statusCache \ keysToDelete |-> statusCache[k]]

(***************************************************************************)
(* Candle cache.                                                           *)
(***************************************************************************)
\* variant of IsStale: a candle with the timestamp of the newest cached one
\* counts as new
IsStaleStrict(newCandle, lastCachedCandle) ==
    Lt(newCandle.timestamp, lastCachedCandle.timestamp)

\* line 301: the fetched candle is not newer than the newest cached one
IsStale(newCandle, lastCachedCandle) ==
    Leq(newCandle.timestamp, lastCachedCandle.timestamp)

\* variant of SlideWindow: the oldest candle is kept
SlideWindowKeepOldest(cachedKlines, newCandle) ==
    cachedKlines \o <<newCandle>>

\* line 307: [...cachedKlines.slice(1), newCandle]
SlideWindow(cachedKlines, newCandle) ==
    SubSeq(cachedKlines, 2, Len(cachedKlines)) \o <<newCandle>>

\* variant of InitAccepts: any non-empty fetched list becomes a window
InitAcceptsNonEmpty(klineData) == Len(klineData) >= 1

\* lines 216-218 of initializeKlineCache: which fetched list becomes a window,
\* and the window that is stored
InitAccepts(klineData) == Len(klineData) >= WindowSize

InitWindow(klineData) == klineData

\* variant of updateTokenKlineCache: a fetch without a candle drops the window
updateTokenKlineCacheDropsWindow(cache, tokenAddress, latestKline) ==
    IF Len(latestKline) = 0
    THEN [klineCache |-> [cache EXCEPT ![tokenAddress] = <<>>], updatedKlines |-> Null]
    ELSE LET newCandle == latestKline[1]
             cachedKlines == cache[tokenAddress]
         IN IF Len(cachedKlines) = 0
            THEN [klineCache |-> cache, updatedKlines |-> Null]
            ELSE IF IsStale(newCandle, cachedKlines[Len(cachedKlines)])
            THEN [klineCache |-> cache, updatedKlines |-> Null]
            ELSE LET updatedKlines == SlideWindow(cachedKlines, newCandle)
                 IN [klineCache |-> [cache EXCEPT ![tokenAddress] = updatedKlines],
                     updatedKlines |-> Some(updatedKlines)]

\* updateTokenKlineCache after its fetch has returned latestKline: the new
\* klineCache and the returned value (Null, or the updated window).
updateTokenKlineCache(cache, tokenAddress, latestKline) ==
    IF Len(latestKline) = 0
    THEN [klineCache |-> cache, updatedKlines |-> Null]
    ELSE LET newCandle == latestKline[1]
             cachedKlines == cache[tokenAddress]
         IN IF Len(cachedKlines) = 0
            THEN [klineCache |-> cache, updatedKlines |-> Null]
            ELSE IF IsStale(newCandle, cachedKlines[Len(cachedKlines)])
            THEN [klineCache |-> cache, updatedKlines |-> Null]
            ELSE LET updatedKlines == SlideWindow(cachedKlines, newCandle)
                 IN [klineCache |-> [cache EXCEPT ![tokenAddress] = updatedKlines],
                     updatedKlines |-> Some(updatedKlines)]

(***************************************************************************)
(* Signal detector.                                                        *)
(***************************************************************************)
\* variants of SignalCondition: the stored alignment is not consulted; the
\* stored alignment has to be true
SignalConditionNoPrev(prevBullishStatus, bullish) ==
    bullish = TRUE

SignalConditionPrevTrue(prevBullishStatus, bullish) ==
    prevBullishStatus = Some(TRUE) /\ bullish = TRUE

\* line 699: prevBullishStatus === false && currentEMAStatus.bullish === true
SignalCondition(prevBullishStatus, bullish) ==
    prevBullishStatus = Some(FALSE) /\ bullish = TRUE

\* variant of PrevCandle: the newest candle itself
PrevCandleNewest(cachedKlines) == cachedKlines[Len(cachedKlines)]

\* line 683: the candle before the newest one, whose stored alignment is read
PrevCandle(cachedKlines) == cachedKlines[Len(cachedKlines) - 1]

\* lines 695-696: the alignment of the newest candle is stored
StoreStatus(statusCache, tokenAddress, status) ==
    MapSet(statusCache, StatusKey(tokenAddress, status.timestamp), status.bullish)

NoCheck(statusCache) ==
    [emaStatusCache |-> statusCache, signal |-> Null, status |-> Null, prev |-> Undefined]

\* variant of checkBullishSignal: the alignment is stored only on the path
\* that builds no signal
checkBullishSignalStoreLate(cache, statusCache, tokenAddress) ==
    LET cachedKlines == cache[tokenAddress]
    IN IF Len(cachedKlines) < WindowSize THEN NoCheck(statusCache)
       ELSE LET currentEMAStatus == calculateEMAStatus(cachedKlines)
            IN IF currentEMAStatus = Null THEN NoCheck(statusCache)
               ELSE LET cur == currentEMAStatus[1]
                        prevBullishStatus ==
                            MapGet(statusCache,
                                   StatusKey(tokenAddress, PrevCandle(cachedKlines).timestamp))
                    IN IF SignalCondition(prevBullishStatus, cur.bullish)
                       THEN [emaStatusCache |-> statusCache,
                             signal |-> Some([address |-> tokenAddress,
                                              currentPrice |-> cur.price,
                                              ema21 |-> cur.ema21,
                                              ema55 |-> cur.ema55,
                                              ema144 |-> cur.ema144,
                                              klineTimestamp |-> cur.timestamp]),
                             status |-> currentEMAStatus,
                             prev |-> prevBullishStatus]
                       ELSE [emaStatusCache |->
                                cleanupEMAStatusCache(
                                    StoreStatus(statusCache, tokenAddress, cur), tokenAddress),
                             signal |-> Null,
                             status |-> currentEMAStatus,
                             prev |-> prevBullishStatus]

\* variant of checkBullishSignal: the signal carries the timestamp and the
\* close of the candle before the newest one
checkBullishSignalPrevCandle(cache, statusCache, tokenAddress) ==
    LET cachedKlines == cache[tokenAddress]
    IN IF Len(cachedKlines) < WindowSize THEN NoCheck(statusCache)
       ELSE LET currentEMAStatus == calculateEMAStatus(cachedKlines)
            IN IF currentEMAStatus = Null THEN NoCheck(statusCache)
               ELSE LET cur == currentEMAStatus[1]
                        prevTimestamp == PrevCandle(cachedKlines).timestamp
                        prevBullishStatus ==
                            MapGet(statusCache, StatusKey(tokenAddress, prevTimestamp))
                        stored == StoreStatus(statusCache, tokenAddress, cur)
                    IN IF SignalCondition(prevBullishStatus, cur.bullish)
                       THEN [emaStatusCache |-> stored,
                             signal |-> Some([address |-> tokenAddress,
                                              currentPrice |-> PrevCandle(cachedKlines).close,
                                              ema21 |-> cur.ema21,
                                              ema55 |-> cur.ema55,
                                              ema144 |-> cur.ema144,
                                              klineTimestamp |-> prevTimestamp]),
                             status |-> currentEMAStatus,
                             prev |-> prevBullishStatus]
                       ELSE [emaStatusCache |-> cleanupEMAStatusCache(stored, tokenAddress),
                             signal |-> Null,
                             status |-> currentEMAStatus,
                             prev |-> prevBullishStatus]

\* checkBullishSignal up to its first await: the new emaStatusCache, the
\* signal under construction (Null when the function returns null), the
\* computed status and the stored alignment that was read.
checkBullishSignal(cache, statusCache, tokenAddress) ==
    LET cachedKlines == cache[tokenAddress]
    IN IF Len(cachedKlines) < WindowSize THEN NoCheck(statusCache)
       ELSE LET currentEMAStatus == calculateEMAStatus(cachedKlines)
            IN IF currentEMAStatus = Null THEN NoCheck(statusCache)
               ELSE LET cur == currentEMAStatus[1]
                        prevTimestamp == PrevCandle(cachedKlines).timestamp
                        prevBullishStatus ==
                            MapGet(statusCache, StatusKey(tokenAddress, prevTimestamp))
                        stored == StoreStatus(statusCache, tokenAddress, cur)
                    IN IF SignalCondition(prevBullishStatus, cur.bullish)
                       THEN [emaStatusCache |-> stored,
                             signal |-> Some([address |-> tokenAddress,
                                              currentPrice |-> cur.price,
                                              ema21 |-> cur.ema21,
                                              ema55 |-> cur.ema55,
                                              ema144 |-> cur.ema144,
                                              klineTimestamp |-> cur.timestamp]),
                             status |-> currentEMAStatus,
                             prev |-> prevBullishStatus]
                       ELSE [emaStatusCache |-> cleanupEMAStatusCache(stored, tokenAddress),
                             signal |-> Null,
                             status |-> currentEMAStatus,
                             prev |-> prevBullishStatus]

\* variant of InitStatus: the initial alignment is not stored
InitStatusUnknown(statusCache, tokenAddress, emaStatus) == statusCache

\* lines 222-226 of initializeKlineCache: the initial alignment is stored
InitStatus(statusCache, tokenAddress, emaStatus) ==
    IF emaStatus # Null
    THEN StoreStatus(statusCache, tokenAddress, emaStatus[1])
    ELSE statusCache

\* variant of ShouldDetect: detection runs after every poll
ShouldDetectAlways(updatedKlines) == TRUE

\* line 785 of runScheduledAnalysis: detection runs only on an updated window
ShouldDetect(updatedKlines) == updatedKlines # Null

(***************************************************************************)
(* State.                                                                  *)
(***************************************************************************)
VARIABLES
    klineCache,       \* this.klineCache
    emaStatusCache,   \* this.emaStatusCache
    isInitialized,    \* this.isInitialized
    initIndex,        \* loop index of initializeKlineCache (1-based)
    timerStarted,     \* startScheduledTask has installed the interval timer
    pc,               \* position of every execution of runScheduledAnalysis
    index,            \* its loop index (1-based)
    pending,          \* the signal checkBullishSignal is building while it
                      \* awaits getTokenInfo, then the one being notified
    signalLog,        \* history: the signals checkBullishSignal returned
    notifyLog,        \* history: the calls of sendTelegramMessage
    evalLog,          \* history: per address, the alignments computed so far,
                      \* each with the timestamp of the candle it was computed at
    polled,           \* history: the address and the candle list of the candle
                      \* request the latest step answered (NoPoll after any
                      \* other step)
    env,              \* process.env: which configuration values are set
    phase,            \* position of main: "start" before checkConfig,
                      \* "running" after it, "exited" after process.exit(1)
    calc,             \* a call of calculateEMA or calculateEMAStatus on its
                      \* own: the arguments and, once it returned, the result
    clock             \* the number of the latest call of the interval callback
                      \* and the minutes and seconds new Date() gave it

vars == <<klineCache, emaStatusCache, isInitialized, initIndex, timerStarted,
          pc, index, pending, signalLog, notifyLog, evalLog, polled, env, phase, calc, clock>>

\* The environment: okx tells whether OKX_API_KEY, OKX_SECRET_KEY and
\* OKX_API_PASSPHRASE are all set; a Telegram value is absent, set to a text
\* of the wrong form, or valid.
ValidEnv == [okx |-> TRUE, telegramToken |-> "valid", chatId |-> "valid"]

Environments ==
    {ValidEnv,
     [okx |-> FALSE, telegramToken |-> "valid", chatId |-> "valid"],
     [okx |-> TRUE, telegramToken |-> "absent", chatId |-> "valid"],
     [okx |-> TRUE, telegramToken |-> "valid", chatId |-> "illFormed"]}

\* what becomes of the request to the Telegram API: an answer with ok true,
\* an answer with ok false, a timeout, a transport or HTTP error
TelegramAnswers == {"ok", "notOk", "timeout", "error"}

\* variant of sendTelegramMessage: every answer of the API counts as sent
sendTelegramMessageAnyAnswer(environment, answer) ==
    IF environment.telegramToken = "absent" \/ environment.chatId = "absent"
    THEN FALSE
    ELSE IF environment.telegramToken = "illFormed" THEN FALSE
    ELSE IF environment.chatId = "illFormed" THEN FALSE
    ELSE answer \in {"ok", "notOk"}

\* sendTelegramMessage: false without a request when a value is absent
\* (line 73), when the token has the wrong form (line 80) or the chat id has
\* (line 87); true when the API answers ok (line 104); false for an answer
\* that is not ok and, through the catch block, for a timeout or an error
sendTelegramMessage(environment, answer) ==
    IF environment.telegramToken = "absent" \/ environment.chatId = "absent"
    THEN FALSE
    ELSE IF environment.telegramToken = "illFormed" THEN FALSE
    ELSE IF environment.chatId = "illFormed" THEN FALSE
    ELSE answer = "ok"

NoPoll == [token |-> 0, latestKline |-> <<>>]

\* no call of the interval callback so far
NoClock == [tick |-> 0, minutes |-> 0, seconds |-> 0]

\* no call of the calculator on its own
NoCalc == [kind |-> "none", prices |-> <<>>, period |-> 0, klineData |-> <<>>,
           returned |-> FALSE, ema |-> <<>>, status |-> Null]

\* an entry of evalLog
Evaluation(status) == [timestamp |-> status.timestamp, bullish |-> status.bullish]

Init ==
    /\ klineCache = [t \in Tokens |-> <<>>]
    /\ emaStatusCache = <<>>
    /\ isInitialized = FALSE
    /\ initIndex = 1
    /\ timerStarted = FALSE
    /\ pc = [r \in Runs |-> "idle"]
    /\ index = [r \in Runs |-> 1]
    /\ pending = [r \in Runs |-> Null]
    /\ signalLog = <<>>
    /\ notifyLog = <<>>
    /\ evalLog = [t \in Tokens |-> <<>>]
    /\ polled = NoPoll
    /\ env = ValidEnv
    /\ phase = "running"
    /\ calc = NoCalc
    /\ clock = NoClock

(***************************************************************************)
(* initializeKlineCache: one iteration of its loop, from the arrival of    *)
(* the bulk response to the sleep that ends the iteration.                 *)
(***************************************************************************)
InitToken(response) ==
    /\ phase = "running"
    /\ initIndex <= NumTokens
    /\ LET token == getTopVolumeBSCTokens[initIndex]
           klineData == getKlineData(response)
       IN IF InitAccepts(klineData)
          THEN LET window == InitWindow(klineData)
                   emaStatus == calculateEMAStatus(window)
               IN /\ klineCache' = [klineCache EXCEPT ![token] = window]
                  /\ emaStatusCache' = InitStatus(emaStatusCache, token, emaStatus)
                  /\ evalLog' =
                        IF emaStatus # Null
                        THEN [evalLog EXCEPT ![token] = Append(@, Evaluation(emaStatus[1]))]
                        ELSE evalLog
          ELSE UNCHANGED <<klineCache, emaStatusCache, evalLog>>
    /\ initIndex' = initIndex + 1
    /\ polled' = NoPoll
    /\ UNCHANGED <<isInitialized, timerStarted, pc, index, pending, signalLog, notifyLog, env, phase, calc, clock>>

\* the end of initializeKlineCache and the rest of main: isInitialized is
\* set and startScheduledTask installs the timer
InitFinish ==
    /\ initIndex = NumTokens + 1
    /\ ~timerStarted
    /\ isInitialized' = TRUE
    /\ timerStarted' = TRUE
    /\ polled' = NoPoll
    /\ UNCHANGED <<klineCache, emaStatusCache, initIndex, pc, index, pending,
                   signalLog, notifyLog, evalLog, env, phase, calc, clock>>

(***************************************************************************)
(* runScheduledAnalysis.                                                   *)
(***************************************************************************)
\* variant of NextToken: the loop is left after the work on one address
NextTokenAbort(r) ==
    /\ index' = index
    /\ pc' = [pc EXCEPT ![r] = "done"]

\* after the work on one address: sleep(200), then the next iteration, which
\* issues the next candle request, or the end of the loop
NextToken(r) ==
    IF index[r] < NumTokens
    THEN /\ index' = [index EXCEPT ![r] = @ + 1]
         /\ pc' = [pc EXCEPT ![r] = "fetch"]
    ELSE /\ index' = index
         /\ pc' = [pc EXCEPT ![r] = "done"]

\* variant of runScheduledAnalysis: isInitialized is not consulted
runScheduledAnalysisUnguarded(r) ==
    /\ timerStarted
    /\ pc[r] = "idle"
    /\ \A q \in Runs : q < r => pc[q] # "idle"
    /\ pc' = [pc EXCEPT ![r] = "fetch"]
    /\ index' = [index EXCEPT ![r] = 1]
    /\ polled' = NoPoll
    /\ UNCHANGED <<klineCache, emaStatusCache, isInitialized, initIndex, timerStarted,
                   pending, signalLog, notifyLog, evalLog, env, phase, calc>>

\* runScheduledAnalysis up to its first candle request.  The executions are
\* numbered in the order of their calls.
runScheduledAnalysis(r) ==
    /\ timerStarted
    /\ pc[r] = "idle"
    /\ \A q \in Runs : q < r => pc[q] # "idle"
    /\ IF isInitialized
       THEN pc' = [pc EXCEPT ![r] = "fetch"]
       ELSE pc' = [pc EXCEPT ![r] = "done"]
    /\ index' = [index EXCEPT ![r] = 1]
    /\ polled' = NoPoll
    /\ UNCHANGED <<klineCache, emaStatusCache, isInitialized, initIndex, timerStarted,
                   pending, signalLog, notifyLog, evalLog, env, phase, calc>>

\* a timer tick at a 5-minute boundary: the callback calls
\* runScheduledAnalysis
Tick(r) ==
    /\ runScheduledAnalysis(r)
    /\ UNCHANGED clock

\* the number of candles appended to a window so far: the candles from the
\* first one that cannot stem from the bulk response
AppendedTo(window) ==
    LET n == Len(window)
        late == {i \in (n - MaxNewCandles)..n :
                   /\ i >= 1
                   /\ \/ window[i].timestamp = NaN
                      \/ window[i].timestamp > BulkNewestTs
                      \/ i > 1 /\ ~Lt(window[i - 1].timestamp, window[i].timestamp)}
    IN IF late = {} THEN 0
       ELSE n + 1 - (CHOOSE i \in late : \A j \in late : i <= j)

\* the number of candles appended to the windows of the first n addresses
RECURSIVE Appended(_, _)
Appended(cache, n) ==
    IF n = 0 THEN 0
    ELSE Appended(cache, n - 1) + AppendedTo(cache[getTopVolumeBSCTokens[n]])

\* the candle request of updateTokenKlineCache returns: the rest of
\* updateTokenKlineCache and, when it returned a window, checkBullishSignal
\* up to its await of getTokenInfo
LatestCandleReturn(r, response) ==
    /\ pc[r] = "fetch"
    /\ LET token == getTopVolumeBSCTokens[index[r]]
           latestKline == getKlineData(response)
           upd == updateTokenKlineCache(klineCache, token, latestKline)
       IN /\ klineCache' = upd.klineCache
          /\ polled' = [token |-> token, latestKline |-> latestKline]
          /\ IF ShouldDetect(upd.updatedKlines)
             THEN LET chk == checkBullishSignal(upd.klineCache, emaStatusCache, token)
                  IN /\ emaStatusCache' = chk.emaStatusCache
                     /\ evalLog' =
                            IF chk.status # Null
                            THEN [evalLog EXCEPT ![token] = Append(@, Evaluation(chk.status[1]))]
                            ELSE evalLog
                     /\ IF chk.signal # Null
                        THEN /\ pending' = [pending EXCEPT ![r] = chk.signal]
                             /\ pc' = [pc EXCEPT ![r] = "tokenInfo"]
                             /\ index' = index
                        ELSE /\ pending' = pending
                             /\ NextToken(r)
             ELSE /\ NextToken(r)
                  /\ UNCHANGED <<emaStatusCache, evalLog, pending>>
    /\ UNCHANGED <<isInitialized, initIndex, timerStarted, signalLog, notifyLog, env, phase, calc, clock>>

\* the same step, as long as the upstream has served fewer than MaxNewCandles
\* candles newer than the bulk fetch
LatestCandle(r, response) ==
    /\ LET token == getTopVolumeBSCTokens[index[r]]
           upd == updateTokenKlineCache(klineCache, token, getKlineData(response))
       IN upd.updatedKlines # Null => Appended(klineCache, NumTokens) < MaxNewCandles
    /\ LatestCandleReturn(r, response)

\* formatTelegramMessage: line 1025 throws a RangeError for a candle timestamp
\* that is no number (new Date(NaN).toISOString()); the text of the message
\* is not modelled
formatTelegramMessage(signal) ==
    [threw |-> signal.klineTimestamp = NaN, signal |-> signal]

\* variant of TokenInfoReturn: sendTelegramMessage is not awaited, the loop
\* goes on to the next address while the notification is under way
TokenInfoReturnNoAwait(r) ==
    /\ pc[r] = "tokenInfo"
    /\ signalLog' = Append(signalLog, [signal |-> pending[r][1], run |-> r])
    /\ pending' = [pending EXCEPT ![r] = Null]
    /\ NextToken(r)
    /\ polled' = NoPoll
    /\ UNCHANGED <<klineCache, emaStatusCache, isInitialized, initIndex, timerStarted,
                   notifyLog, evalLog, env, phase, calc, clock>>

\* getTokenInfo returns (it never throws): checkBullishSignal returns the
\* signal, runScheduledAnalysis formats it and calls sendTelegramMessage; an
\* exception of formatTelegramMessage is caught at line 798 and the loop goes
\* on to the next address
TokenInfoReturn(r) ==
    /\ pc[r] = "tokenInfo"
    /\ signalLog' = Append(signalLog, [signal |-> pending[r][1], run |-> r])
    /\ IF formatTelegramMessage(pending[r][1]).threw
       THEN /\ pending' = [pending EXCEPT ![r] = Null]
            /\ NextToken(r)
       ELSE /\ pc' = [pc EXCEPT ![r] = "notify"]
            /\ UNCHANGED <<index, pending>>
    /\ polled' = NoPoll
    /\ UNCHANGED <<klineCache, emaStatusCache, isInitialized, initIndex, timerStarted,
                   notifyLog, evalLog, env, phase, calc, clock>>

\* sendTelegramMessage returns true or false
NotifyReturn(r, answer) ==
    /\ pc[r] = "notify"
    /\ notifyLog' = Append(notifyLog, [address |-> pending[r][1].address,
                                       klineTimestamp |-> pending[r][1].klineTimestamp,
                                       run |-> r,
                                       sent |-> sendTelegramMessage(env, answer)])
    /\ pending' = [pending EXCEPT ![r] = Null]
    /\ NextToken(r)
    /\ polled' = NoPoll
    /\ UNCHANGED <<klineCache, emaStatusCache, isInitialized, initIndex, timerStarted,
                   signalLog, evalLog, env, phase, calc, clock>>

Next ==
    \/ \E response \in BulkResponses : InitToken(response)
    \/ InitFinish
    \/ \E r \in Runs : Tick(r)
    \/ \E r \in Runs :
          \E response \in LatestResponses(klineCache[getTopVolumeBSCTokens[index[r]]]) :
              LatestCandle(r, response)
    \/ \E r \in Runs : TokenInfoReturn(r)
    \/ \E r \in Runs, answer \in TelegramAnswers : NotifyReturn(r, answer)

Spec == Init /\ [][Next]_vars

(***************************************************************************)
(* Vocabulary of the properties.                                           *)
(***************************************************************************)
Last(s) == s[Len(s)]

HasWindow(t) == Len(klineCache[t]) > 0

\* the signals of address t that checkBullishSignal has decided to build:
\* those it is still fetching the metadata for, and those it has returned
Building(t) == {r \in Runs : pc[r] = "tokenInfo" /\ pending[r][1].address = t}

Returned(t) == {i \in 1..Len(signalLog) : signalLog[i].signal.address = t}

SignalCount(t) == Cardinality(Building(t)) + Cardinality(Returned(t))

SignalTimestamps(t) ==
    {pending[r][1].klineTimestamp : r \in Building(t)}
    \cup {signalLog[i].signal.klineTimestamp : i \in Returned(t)}

\* the step answers the candle request of execution r
Polls(r) == pc[r] = "fetch" /\ polled' # NoPoll /\ (pc'[r] # "fetch" \/ index'[r] # index[r])

\* the step evaluates address t in the scheduled path
Evaluates(t) == timerStarted /\ Len(evalLog'[t]) = Len(evalLog[t]) + 1

\* the step makes checkBullishSignal build a signal for address t
Fires(t) ==
    \E r \in Runs : pc[r] = "fetch" /\ pc'[r] = "tokenInfo" /\ pending'[r][1].address = t

(***************************************************************************)
(* C1.  In the scheduled path, a step that appends a candle to the window  *)
(* of an address and evaluates it makes checkBullishSignal build a signal  *)
(* if and only if the alignment stored for the candle that was newest      *)
(* before the append is exactly false and the alignment computed on the    *)
(* updated window is true; a stored true or a missing value builds none.   *)
(***************************************************************************)
StoredBefore(t) ==
    MapGet(emaStatusCache, StatusKey(t, Last(klineCache[t]).timestamp))

C1_SignalIffFalseThenTrue ==
    [][\A t \in Tokens :
          (Evaluates(t) /\ klineCache'[t] # klineCache[t])
          => (Fires(t) <=> (StoredBefore(t) = Some(FALSE)
                            /\ Last(evalLog'[t]).bullish = TRUE))]_vars

\* a signal is being built for an address whose last two alignments are
\* false, true
C1_Witness ==
    \E t \in Tokens :
        /\ Building(t) # {}
        /\ Len(evalLog[t]) >= 2
        /\ ~evalLog[t][Len(evalLog[t]) - 1].bullish
        /\ Last(evalLog[t]).bullish

(***************************************************************************)
(* C2.  For every address, the signals built so far are exactly those of   *)
(* the evaluations whose alignment is true and whose immediately preceding *)
(* evaluation (the one of initializeKlineCache for the first cycle) was    *)
(* false, one signal each: a false, true, true run yields one signal, at   *)
(* the candle of the transition.                                           *)
(***************************************************************************)
Transitions(t) ==
    {i \in 2..Len(evalLog[t]) : evalLog[t][i].bullish /\ ~evalLog[t][i - 1].bullish}

C2_SignalsAreTransitions ==
    \A t \in Tokens :
        /\ SignalTimestamps(t) = {evalLog[t][i].timestamp : i \in Transitions(t)}
        /\ SignalCount(t) = Cardinality(Transitions(t))

\* alignments false, true, true and one signal, at the second evaluation
C2_Witness ==
    \E t \in Tokens :
        /\ Len(evalLog[t]) = 3
        /\ ~evalLog[t][1].bullish /\ evalLog[t][2].bullish /\ evalLog[t][3].bullish
        /\ SignalCount(t) = 1
        /\ SignalTimestamps(t) = {evalLog[t][2].timestamp}

(***************************************************************************)
(* C3.  As claimed: the first scheduled cycle after initializeKlineCache   *)
(* (execution 1) builds no signal.                                         *)
(***************************************************************************)
C3_NoSignalInFirstCycle ==
    /\ pc[1] # "tokenInfo"
    /\ \A i \in 1..Len(signalLog) : signalLog[i].run # 1

(***************************************************************************)
(* C3, amended.  On the first scheduled evaluation of an address the       *)
(* previous alignment is the one initializeKlineCache stored, not unknown: *)
(* a signal is built if and only if that stored alignment is false and the *)
(* alignment computed on that cycle is true.                               *)
(***************************************************************************)
C3_FirstCycleUsesInitialAlignment ==
    [][\A t \in Tokens :
          (Evaluates(t) /\ Len(evalLog[t]) = 1)
          => (Fires(t) <=> (~evalLog[t][1].bullish /\ evalLog'[t][2].bullish))]_vars

\* the first cycle builds a signal for an address whose only earlier
\* evaluation is the one of initializeKlineCache
C3_Witness ==
    \E t \in Tokens :
        /\ pc[1] = "tokenInfo" /\ pending[1][1].address = t
        /\ Len(evalLog[t]) = 2
        /\ ~evalLog[t][1].bullish

(***************************************************************************)
(* C4.  An address whose window is aligned at the evaluation of            *)
(* initializeKlineCache has no signal for as long as every later           *)
(* evaluation is aligned too.                                              *)
(***************************************************************************)
AlwaysAligned(t) ==
    /\ Len(evalLog[t]) >= 1
    /\ \A i \in 1..Len(evalLog[t]) : evalLog[t][i].bullish

C4_AlignedFromStartNeverSignals ==
    \A t \in Tokens : AlwaysAligned(t) => SignalCount(t) = 0

\* aligned at initialisation and at a later scheduled evaluation, the cycle
\* that evaluated it has moved on
C4_Witness ==
    \E t \in Tokens :
        /\ AlwaysAligned(t)
        /\ Len(evalLog[t]) >= 2
        /\ SignalCount(t) = 0
        /\ \E r \in Runs : pc[r] = "done"

(***************************************************************************)
(* C5.  Over the whole run the scheduled path builds at most one signal    *)
(* per address and candle timestamp.                                       *)
(***************************************************************************)
C5_OneSignalPerCandle ==
    \A t \in Tokens : SignalCount(t) = Cardinality(SignalTimestamps(t))

\* a signal was returned for a candle and a later poll of the address has
\* been answered with that same candle
C5_Witness ==
    \E i \in 1..Len(signalLog) :
        /\ polled.token = signalLog[i].signal.address
        /\ Len(polled.latestKline) = 1
        /\ polled.latestKline[1].timestamp = signalLog[i].signal.klineTimestamp
        /\ SignalCount(polled.token) = 1

(***************************************************************************)
(* C6.  After every scheduled evaluation the alignment it computed is in   *)
(* emaStatusCache under the key of the address and the newest candle, also *)
(* while the metadata lookup and the notification of its signal are under  *)
(* way.                                                                    *)
(***************************************************************************)
C6_AlignmentStoredBeforeLookup ==
    \A t \in Tokens :
        Len(evalLog[t]) >= 2
        => /\ Last(evalLog[t]).timestamp = Last(klineCache[t]).timestamp
           /\ MapGet(emaStatusCache, StatusKey(t, Last(evalLog[t]).timestamp))
                  = Some(Last(evalLog[t]).bullish)

\* the metadata lookup of a signal is under way and the alignment of its
\* candle is stored
C6_Witness ==
    \E r \in Runs :
        /\ pc[r] = "tokenInfo"
        /\ MapGet(emaStatusCache,
                  StatusKey(pending[r][1].address, pending[r][1].klineTimestamp))
               = Some(TRUE)

(***************************************************************************)
(* C7.  A poll answered with a candle whose timestamp is not greater than  *)
(* the newest cached one leaves klineCache and emaStatusCache unchanged,   *)
(* runs no detection and sends no notification.                            *)
(***************************************************************************)
PolledStale ==
    /\ Len(polled'.latestKline) > 0
    /\ Len(klineCache[polled'.token]) > 0
    /\ Leq(polled'.latestKline[1].timestamp, Last(klineCache[polled'.token]).timestamp)

C7_StalePollIsNoOp ==
    [][\A r \in Runs :
          (Polls(r) /\ PolledStale)
          => /\ UNCHANGED <<klineCache, emaStatusCache, evalLog, pending,
                            signalLog, notifyLog>>
             /\ pc'[r] \in {"fetch", "done"}]_vars

\* the latest step polled an address that has a window and was answered
\* with the newest candle of the bulk fetch
C7_Witness ==
    /\ polled # NoPoll
    /\ HasWindow(polled.token)
    /\ Len(polled.latestKline) = 1
    /\ polled.latestKline[1].timestamp = BulkNewestTs

(***************************************************************************)
(* C8.  A poll answered with a candle strictly newer than the newest       *)
(* cached one replaces the window by the old window without its first      *)
(* candle, followed by the fetched candle: same length, order kept.        *)
(***************************************************************************)
PolledNewer ==
    /\ Len(polled'.latestKline) > 0
    /\ Len(klineCache[polled'.token]) > 0
    /\ Gt(polled'.latestKline[1].timestamp, Last(klineCache[polled'.token]).timestamp)

C8_AppendEvictsOldest ==
    [][\A r \in Runs :
          (Polls(r) /\ PolledNewer)
          => LET old == klineCache[polled'.token]
                 new == klineCache'[polled'.token]
             IN /\ Len(new) = Len(old)
                /\ \A i \in 1..(Len(old) - 1) : new[i] = old[i + 1]
                /\ new[Len(new)] = polled'.latestKline[1]]_vars

\* the latest step appended the candle it fetched
C8_Witness ==
    /\ polled # NoPoll
    /\ HasWindow(polled.token)
    /\ Len(polled.latestKline) = 1
    /\ polled.latestKline[1].timestamp > BulkNewestTs
    /\ Last(klineCache[polled.token]) = polled.latestKline[1]
    /\ Last(evalLog[polled.token]).timestamp = polled.latestKline[1].timestamp
    /\ Len(evalLog[polled.token]) = 2

(***************************************************************************)
(* C9.  As claimed: an address initialised from a bulk result of 144 + k   *)
(* ascending candles has the newest 144 of them as its window.             *)
(***************************************************************************)
NewestW(klineData) ==
    SubSeq(klineData, Len(klineData) - WindowSize + 1, Len(klineData))

C9_InitKeepsNewestW ==
    [][\A response \in BulkResponses :
          (/\ initIndex <= NumTokens
           /\ initIndex' = initIndex + 1
           /\ Len(getKlineData(response)) >= WindowSize
           /\ InitToken(response))
          => klineCache'[getTopVolumeBSCTokens[initIndex]]
                = NewestW(getKlineData(response))]_vars

(***************************************************************************)
(* C10.  As claimed: every window in klineCache holds exactly 144 candles. *)
(***************************************************************************)
C10_WindowLengthIsW ==
    \A t \in Tokens : HasWindow(t) => Len(klineCache[t]) = WindowSize

(***************************************************************************)
(* C11.  Every cached window is in strictly ascending timestamp order,     *)
(* hence without duplicate timestamps, after a newest-first bulk response  *)
(* and any sequence of new, repeated and stale latest candles.             *)
(***************************************************************************)
StrictlyAscending(window) ==
    \A i \in 1..(Len(window) - 1) : window[i].timestamp < window[i + 1].timestamp

C11_WindowStrictlyAscending ==
    \A t \in Tokens : StrictlyAscending(klineCache[t])

\* a window that took a new candle has just been polled with a candle older
\* than its newest one
C11_Witness ==
    /\ polled # NoPoll
    /\ HasWindow(polled.token)
    /\ Len(polled.latestKline) = 1
    /\ Last(klineCache[polled.token]).timestamp > BulkNewestTs
    /\ polled.latestKline[1].timestamp < Last(klineCache[polled.token]).timestamp

(***************************************************************************)
(* C12.  An iteration of initializeKlineCache whose bulk fetch yields      *)
(* fewer than 144 candles (the empty list of a failed request included)    *)
(* stores no window and no alignment and goes on to the next address; once *)
(* the timer runs, no step gives an address without a window a window, an  *)
(* alignment, an evaluation or a signal.                                   *)
(***************************************************************************)
StatusKeysOf(t) == {k \in DOMAIN emaStatusCache : k[1] = t}

NotifiedFor(t) == {i \in 1..Len(notifyLog) : notifyLog[i].address = t}

C12_NotReadyIsInert ==
    [][/\ \A response \in BulkResponses :
             (/\ initIndex <= NumTokens
              /\ Len(getKlineData(response)) < WindowSize
              /\ InitToken(response))
             => /\ klineCache'[getTopVolumeBSCTokens[initIndex]] = <<>>
                /\ emaStatusCache' = emaStatusCache
                /\ evalLog' = evalLog
                /\ initIndex' = initIndex + 1
       /\ \A t \in Tokens :
             (timerStarted /\ ~HasWindow(t))
             => /\ klineCache'[t] = <<>>
                /\ StatusKeysOf(t)' = {}
                /\ evalLog'[t] = <<>>
                /\ SignalCount(t)' = 0
                /\ NotifiedFor(t)' = {}]_vars

\* an address without a window has just been polled and the upstream
\* answered with a candle, while another address has a window
C12_Witness ==
    /\ timerStarted
    /\ polled # NoPoll
    /\ ~HasWindow(polled.token)
    /\ Len(polled.latestKline) = 1
    /\ \E t \in Tokens : HasWindow(t)

(***************************************************************************)
(* The process from its start, in any environment: main calls checkConfig  *)
(* before it constructs the analyzer.                                      *)
(***************************************************************************)
\* checkConfig: the process exits when an OKX value is missing
checkConfig(environment) == environment.okx

StartInit ==
    /\ klineCache = [t \in Tokens |-> <<>>]
    /\ emaStatusCache = <<>>
    /\ isInitialized = FALSE
    /\ initIndex = 1
    /\ timerStarted = FALSE
    /\ pc = [r \in Runs |-> "idle"]
    /\ index = [r \in Runs |-> 1]
    /\ pending = [r \in Runs |-> Null]
    /\ signalLog = <<>>
    /\ notifyLog = <<>>
    /\ evalLog = [t \in Tokens |-> <<>>]
    /\ polled = NoPoll
    /\ env \in Environments
    /\ phase = "start"
    /\ calc = NoCalc
    /\ clock = NoClock

\* the first statement of main
CheckConfig ==
    /\ phase = "start"
    /\ phase' = IF checkConfig(env) THEN "running" ELSE "exited"
    /\ UNCHANGED <<klineCache, emaStatusCache, isInitialized, initIndex, timerStarted,
                   pc, index, pending, signalLog, notifyLog, evalLog, polled, env, calc, clock>>

StartNext ==
    \/ CheckConfig
    \/ Next

StartSpec == StartInit /\ [][StartNext]_vars

(***************************************************************************)
(* The detection path with an upstream that may also answer the request    *)
(* for the latest candle with a malformed row.                             *)
(***************************************************************************)
MalformedCandle(r) ==
    \E response \in MalformedResponses(klineCache[getTopVolumeBSCTokens[index[r]]]) :
        LatestCandle(r, response)

MalformedNext ==
    \/ Next
    \/ \E r \in Runs : MalformedCandle(r)

MalformedSpec == Init /\ [][MalformedNext]_vars

(***************************************************************************)
(* The monitoring loop without an end: when an execution of                *)
(* runScheduledAnalysis has returned, its place is taken by the execution  *)
(* of a later tick.  The event loop guarantees that a step that can be     *)
(* taken (a response or a timer that is due) is eventually taken.          *)
(***************************************************************************)
\* the promise of a finished execution is settled; a later tick starts a new
\* execution in its place
Rearm(r) ==
    /\ pc[r] = "done"
    /\ pc' = [pc EXCEPT ![r] = "idle"]
    /\ index' = [index EXCEPT ![r] = 1]
    /\ polled' = NoPoll
    /\ UNCHANGED <<klineCache, emaStatusCache, isInitialized, initIndex, timerStarted,
                   pending, signalLog, notifyLog, evalLog, env, phase, calc, clock>>

LiveNext ==
    \/ Next
    \/ \E r \in Runs : Rearm(r)

LiveSpec == Init /\ [][LiveNext]_vars /\ WF_vars(LiveNext)

(***************************************************************************)
(* C13.  As claimed: an address that has no window once the timer runs     *)
(* (its bulk fetch yielded fewer than 144 candles) eventually has one, the *)
(* upstream being able to serve 144 candles at any time.                   *)
(***************************************************************************)
C13_NotReadyBecomesReady ==
    \A t \in Tokens : (timerStarted /\ ~HasWindow(t)) ~> HasWindow(t)

(***************************************************************************)
(* C14.  As claimed: at most one execution of runScheduledAnalysis is in   *)
(* progress at any time.                                                   *)
(***************************************************************************)
InProgress(r) == pc[r] \in {"fetch", "tokenInfo", "notify"}

C14_NoOverlappingCycles ==
    Cardinality({r \in Runs : InProgress(r)}) <= 1

(***************************************************************************)
(* C15.  A candle request that fails (timeout, transport error, error      *)
(* answer) and an exception thrown while an address is processed do not    *)
(* end the execution: it goes on to the next address of the list, it never *)
(* skips or revisits an address, and it ends only after the last address.  *)
(***************************************************************************)
\* execution r goes on to the next address, or ends after the last one
NextAddress(r) ==
    IF index[r] < NumTokens
    THEN pc'[r] = "fetch" /\ index'[r] = index[r] + 1
    ELSE pc'[r] = "done" /\ index'[r] = index[r]

\* the step ends the work of execution r on an address with a failed candle
\* request or with an exception
FailsOn(r) ==
    \/ Polls(r) /\ polled'.latestKline = <<>>
    \/ /\ pc[r] = "tokenInfo" /\ pc'[r] # "tokenInfo"
       /\ formatTelegramMessage(pending[r][1]).threw

Token(r) == getTopVolumeBSCTokens[index[r]]

Moves(r) == pc'[r] # pc[r] \/ index'[r] # index[r]

C16_SequentialOrder ==
    [][/\ \A r \in Runs :
             Moves(r) =>
                CASE pc[r] = "idle" ->
                        pc'[r] = "fetch" /\ index'[r] = 1
                  [] pc[r] = "fetch" ->
                        \/ NextAddress(r) /\ pending'[r] = Null
                        \/ /\ pc'[r] = "tokenInfo" /\ index'[r] = index[r]
                           /\ klineCache'[Token(r)] # klineCache[Token(r)]
                           /\ pending'[r][1].address = Token(r)
                           /\ pending'[r][1].klineTimestamp
                                 = Last(klineCache'[Token(r)]).timestamp
                  [] pc[r] = "tokenInfo" ->
                        /\ signalLog' = Append(signalLog, [signal |-> pending[r][1], run |-> r])
                        /\ notifyLog' = notifyLog
                        /\ \/ pc'[r] = "notify" /\ index'[r] = index[r]
                           \/ formatTelegramMessage(pending[r][1]).threw /\ NextAddress(r)
                  [] pc[r] = "notify" ->
                        /\ Len(notifyLog') = Len(notifyLog) + 1
                        /\ Last(notifyLog').address = Token(r)
                        /\ Last(notifyLog').run = r
                        /\ NextAddress(r)
                  [] OTHER -> FALSE
       /\ \A t \in Tokens :
             (timerStarted /\ klineCache'[t] # klineCache[t])
             => \E r \in Runs : pc[r] = "fetch" /\ Token(r) = t /\ Moves(r)]_vars

\* an execution has been through update, detection and notification of the
\* first address and has issued the request for the second
C16_Witness ==
    \E r \in Runs :
        /\ pc[r] = "fetch" /\ index[r] = 2
        /\ \E i \in 1..Len(notifyLog) :
              notifyLog[i].run = r /\ notifyLog[i].address = getTopVolumeBSCTokens[1]

(***************************************************************************)
(* C17.  A candle request of a cycle that fails or yields an empty list    *)
(* leaves the windows and the alignments unchanged and builds no signal,   *)
(* and the request is not repeated: every answer to a candle request ends  *)
(* the work of its execution on that address for the cycle.                *)
(***************************************************************************)
C17_FailedPollSkipsAddress ==
    [][/\ \A r \in Runs :
             (Polls(r) /\ polled'.latestKline = <<>>)
             => /\ UNCHANGED <<klineCache, emaStatusCache, evalLog, pending,
                               signalLog, notifyLog>>
                /\ NextAddress(r)
       /\ polled' # NoPoll
             => \E r \in Runs : Polls(r) /\ Token(r) = polled'.token]_vars

\* the latest step answered the candle request for an address that has a
\* window with a failure or an empty list
C17_Witness ==
    /\ polled # NoPoll
    /\ polled.latestKline = <<>>
    /\ HasWindow(polled.token)
    /\ polled.token = getTopVolumeBSCTokens[1]
    /\ \E r \in Runs : pc[r] = "fetch" /\ index[r] = 2

(***************************************************************************)
(* C18.  As claimed: a candle request answered with a malformed row (a     *)
(* timestamp or a close that is missing or no number) is handled like a    *)
(* failed request: the windows and the alignments stay unchanged, nothing  *)
(* is evaluated and the execution goes on to the next address.             *)
(***************************************************************************)
PolledMalformed ==
    /\ Len(polled'.latestKline) = 1
    /\ \/ polled'.latestKline[1].timestamp = NaN
       \/ polled'.latestKline[1].close = NaN

C18_MalformedIsFailure ==
    [][\A r \in Runs :
          (Polls(r) /\ PolledMalformed)
          => /\ UNCHANGED <<klineCache, emaStatusCache, evalLog, pending>>
             /\ NextAddress(r)]_vars

(***************************************************************************)
(* C19.  As claimed: when a required configuration value (an OKX           *)
(* credential, the Telegram token or the chat id) is absent at the start   *)
(* of the process, the initialisation of the cache never begins and the    *)
(* timer is never started.                                                 *)
(***************************************************************************)
RequiredAbsent ==
    \/ ~env.okx
    \/ env.telegramToken = "absent"
    \/ env.chatId = "absent"

C19_MissingConfigExitsAtStart ==
    RequiredAbsent => (initIndex = 1 /\ ~isInitialized /\ ~timerStarted)

(***************************************************************************)
(* C20.  Every call of sendTelegramMessage returns: true exactly when the  *)
(* configuration is complete and well-formed and the Telegram API answers  *)
(* ok; false when a value is absent or ill-formed, when the answer is not  *)
(* ok, on a timeout and on a transport error.  After either result the     *)
(* execution goes on to the next address.                                  *)
(***************************************************************************)
TelegramConfigured == env.telegramToken = "valid" /\ env.chatId = "valid"

C20_NotifyReturnsBoolean ==
    [][\A r \in Runs :
          /\ \A answer \in TelegramAnswers :
                (pc[r] = "notify" /\ NotifyReturn(r, answer))
                => /\ Last(notifyLog').sent = (TelegramConfigured /\ answer = "ok")
                   /\ NextAddress(r)
          /\ (pc[r] = "notify" /\ pc'[r] # "notify")
                => \E answer \in TelegramAnswers : NotifyReturn(r, answer)]_vars

\* without a Telegram token a notification returned false and the execution
\* has gone on to the next address
C20_Witness ==
    /\ env.telegramToken = "absent"
    /\ \E i \in 1..Len(notifyLog) :
          /\ ~notifyLog[i].sent
          /\ notifyLog[i].address = getTopVolumeBSCTokens[1]
          /\ pc[notifyLog[i].run] = "fetch"
          /\ index[notifyLog[i].run] = 2

(***************************************************************************)
(* C21.  As claimed: every signal checkBullishSignal has returned is       *)
(* handed to sendTelegramMessage exactly once, by the execution that built *)
(* it: the call is under way, or it has returned (true or false) and no    *)
(* other call was made for that signal.                                    *)
(***************************************************************************)
DispatchesOf(entry) ==
    {j \in 1..Len(notifyLog) :
        /\ notifyLog[j].address = entry.signal.address
        /\ notifyLog[j].klineTimestamp = entry.signal.klineTimestamp}

DispatchUnderWay(entry) ==
    pc[entry.run] = "notify" /\ pending[entry.run] = Some(entry.signal)

CalcPrices == {0, 1000000, 2000000}

PriceSequences == UNION {[1..n -> CalcPrices] : n \in 0..MaxLen}

\* candles 1..n: the close is base up to the last MaxTail candles, whose
\* closes are those of tail
CalcWindow(n, base, tail) ==
    [i \in 1..n |->
        [timestamp |-> i,
         close |-> IF i > n - MaxTail THEN tail[i - (n - MaxTail)] ELSE base]]

CalcWindows ==
    {CalcWindow(n, base, tail) :
        n \in (WindowSize - 1)..(WindowSize + MaxExtra),
        base \in CalcPrices,
        tail \in [1..MaxTail -> CalcPrices]}

CalcInit ==
    /\ klineCache = [t \in Tokens |-> <<>>]
    /\ emaStatusCache = <<>>
    /\ isInitialized = FALSE
    /\ initIndex = 1
    /\ timerStarted = FALSE
    /\ pc = [r \in Runs |-> "idle"]
    /\ index = [r \in Runs |-> 1]
    /\ pending = [r \in Runs |-> Null]
    /\ signalLog = <<>>
    /\ notifyLog = <<>>
    /\ evalLog = [t \in Tokens |-> <<>>]
    /\ polled = NoPoll
    /\ env = ValidEnv
    /\ phase = "start"
    /\ clock = NoClock
    /\ \/ \E prices \in PriceSequences, period \in 1..MaxPeriod :
             calc = [NoCalc EXCEPT !.kind = "ema", !.prices = prices, !.period = period]
       \/ \E klineData \in CalcWindows :
             calc = [NoCalc EXCEPT !.kind = "status", !.klineData = klineData]

CalculateEMA ==
    /\ calc.kind = "ema"
    /\ ~calc.returned
    /\ calc' = [calc EXCEPT !.returned = TRUE,
                            !.ema = calculateEMA(calc.prices, calc.period)]
    /\ UNCHANGED <<klineCache, emaStatusCache, isInitialized, initIndex, timerStarted,
                   pc, index, pending, signalLog, notifyLog, evalLog, polled, env, phase, clock>>

CalculateEMAStatus ==
    /\ calc.kind = "status"
    /\ ~calc.returned
    /\ calc' = [calc EXCEPT !.returned = TRUE,
                            !.status = calculateEMAStatus(calc.klineData)]
    /\ UNCHANGED <<klineCache, emaStatusCache, isInitialized, initIndex, timerStarted,
                   pc, index, pending, signalLog, notifyLog, evalLog, polled, env, phase, clock>>

CalcNext ==
    \/ CalculateEMA
    \/ CalculateEMAStatus

CalcSpec == CalcInit /\ [][CalcNext]_vars

(***************************************************************************)
(* C22.  calculateEMAStatus returns bullish = true exactly when the last   *)
(* entry of the EMA21 series is greater than the last entry of the EMA55   *)
(* series and that one greater than the last entry of the EMA144 series;   *)
(* when two neighbouring values are equal, as on a window of constant      *)
(* closes, it returns bullish = false.                                     *)
(***************************************************************************)
LatestOf(klineData, period) ==
    Last(calculateEMA(closesOf(klineData, 1, Len(klineData)), period))[1]

C22_BullishIffStrictlyAligned ==
    (calc.kind = "status" /\ calc.returned /\ Len(calc.klineData) >= WindowSize)
    => LET e21 == LatestOf(calc.klineData, PeriodShort)
           e55 == LatestOf(calc.klineData, PeriodMid)
           e144 == LatestOf(calc.klineData, PeriodLong)
       IN /\ calc.status # Null
          /\ calc.status[1].bullish = (e21 > e55 /\ e55 > e144)
          /\ (e21 = e55 \/ e55 = e144) => calc.status[1].bullish = FALSE

\* calculateEMAStatus has returned for a window of constant closes: the three
\* values are equal and bullish is false
C22_Witness ==
    /\ calc.kind = "status" /\ calc.returned
    /\ Len(calc.klineData) = WindowSize
    /\ \A i \in 1..WindowSize : calc.klineData[i].close = 2000000
    /\ calc.status # Null
    /\ calc.status[1].ema21 = calc.status[1].ema55
    /\ calc.status[1].ema55 = calc.status[1].ema144
    /\ calc.status[1].bullish = FALSE

(***************************************************************************)
(* C23.  For every period p >= 1 and every price sequence shorter than p,  *)
(* the result of calculateEMA holds no defined value.                      *)
(***************************************************************************)
C23_ShortSequenceNoValue ==
    (calc.kind = "ema" /\ calc.returned /\ Len(calc.prices) < calc.period)
    => \A i \in DOMAIN calc.ema : calc.ema[i] = Null

\* calculateEMA has returned for a sequence one price short of the period
C23_Witness ==
    /\ calc.kind = "ema" /\ calc.returned
    /\ Len(calc.prices) >= 1
    /\ Len(calc.prices) = calc.period - 1
    /\ calc.ema = <<>>

(***************************************************************************)
(* C24.  For every period p >= 1 and every sequence of n >= p prices, the  *)
(* result of calculateEMA has n entries: the first p - 1 are undefined,    *)
(* entry p is the arithmetic mean of the first p prices, and every later   *)
(* entry i is prices[i] * m + ema[i - 1] * (1 - m) with m = 2 / (p + 1),   *)
(* that is (2 * prices[i] + (p - 1) * ema[i - 1]) / (p + 1).               *)
(***************************************************************************)
RECURSIVE SumOfFirst(_, _)
SumOfFirst(prices, k) == IF k = 0 THEN 0 ELSE SumOfFirst(prices, k - 1) + prices[k]

C24_SeedIsMeanThenRecurrence ==
    (calc.kind = "ema" /\ calc.returned /\ Len(calc.prices) >= calc.period)
    => LET p == calc.period
           n == Len(calc.prices)
       IN /\ Len(calc.ema) = n
          /\ \A i \in 1..(p - 1) : calc.ema[i] = Undefined
          /\ calc.ema[p] = Some(SumOfFirst(calc.prices, p) \div p)
          /\ \A i \in (p + 1)..n :
                calc.ema[i] = Some((2 * calc.prices[i] + (p - 1) * calc.ema[i - 1][1])
                                       \div (p + 1))

\* calculateEMA has returned for period 3 and five prices that are not all
\* equal: two undefined entries, the mean, two entries of the recurrence
C24_Witness ==
    /\ calc.kind = "ema" /\ calc.returned
    /\ calc.period = 3
    /\ calc.prices = <<1000000, 2000000, 0, 2000000, 1000000>>
    /\ calc.ema = <<Null, Null, Some(1000000), Some(1500000), Some(1250000)>>

(***************************************************************************)
(* The monitoring loop over many candles.  The upstream serves every       *)
(* address the candles of a scenario: the bulk request is answered with    *)
(* the first 144 candles (or fails), every later request with a failure,   *)
(* with the newest candle served so far, or with the next candle.  A       *)
(* finished execution gives way to the execution of a later tick.          *)
(***************************************************************************)
\* 144 + MaxFlat closes of 1.0, then two closes of 2.0
StepCloses ==
    [i \in 1..(WindowSize + MaxFlat + 2) |->
        IF i <= WindowSize + MaxFlat THEN 1000000 ELSE 2000000]

\* 100 closes of 1.0, then 50 closes of 2.0
RiseCloses == [i \in 1..150 |-> IF i <= 100 THEN 1000000 ELSE 2000000]

ScenarioCloses(t) == IF t % 2 = 1 THEN StepCloses ELSE RiseCloses

\* the timestamp of candle j of a scenario: candle 144 is the newest candle
\* of the bulk response
ScenarioTs(j) == BulkNewestTs - WindowSize + j

\* the rows of candles lo..hi of a scenario, newest first
RECURSIVE ScenarioRows(_, _, _)
ScenarioRows(closes, lo, hi) ==
    IF lo > hi THEN <<>>
    ELSE IF lo = hi THEN <<Row(ScenarioTs(lo), closes[lo])>>
    ELSE LET mid == (lo + hi) \div 2
         IN ScenarioRows(closes, mid + 1, hi) \o ScenarioRows(closes, lo, mid)

FeedBulkResponses(t) ==
    {Failure, [ok |-> TRUE, rows |-> ScenarioRows(ScenarioCloses(t), 1, WindowSize)]}

FeedResponses(t, cachedKlines) ==
    LET closes == ScenarioCloses(t)
        j == IF Len(cachedKlines) = 0 THEN WindowSize
             ELSE cachedKlines[Len(cachedKlines)].timestamp - ScenarioTs(0)
    IN {Failure, [ok |-> TRUE, rows |-> ScenarioRows(closes, j, j)]}
       \cup (IF j < Len(closes) /\ Len(cachedKlines) > 0
             THEN {[ok |-> TRUE, rows |-> ScenarioRows(closes, j + 1, j + 1)]}
             ELSE {})

FeedInitToken ==
    /\ initIndex <= NumTokens
    /\ \E response \in FeedBulkResponses(getTopVolumeBSCTokens[initIndex]) :
          InitToken(response)

FeedCandle(r) ==
    \E response \in FeedResponses(Token(r), klineCache[Token(r)]) :
        LatestCandleReturn(r, response)

FeedNext ==
    \/ FeedInitToken
    \/ InitFinish
    \/ \E r \in Runs : Tick(r)
    \/ \E r \in Runs : FeedCandle(r)
    \/ \E r \in Runs : TokenInfoReturn(r)
    \/ \E r \in Runs, answer \in TelegramAnswers : NotifyReturn(r, answer)
    \/ \E r \in Runs : Rearm(r)

FeedSpec == Init /\ [][FeedNext]_vars

(***************************************************************************)
(* C25.  As claimed: whenever no execution of runScheduledAnalysis is in   *)
(* progress, emaStatusCache holds at most 10 alignments per address, those *)
(* of the greatest candle timestamps evaluated so far.                     *)
(***************************************************************************)
EvaluatedTimestamps(t) == {evalLog[t][i].timestamp : i \in 1..Len(evalLog[t])}

C25_AtMostTenAfterCycle ==
    (\A r \in Runs : ~InProgress(r))
    => \A t \in Tokens :
          /\ Cardinality(StatusKeysOf(t)) <= StatusKeep
          /\ \A k \in StatusKeysOf(t) :
                Cardinality({x \in EvaluatedTimestamps(t) : x > k[2]}) < StatusKeep

(***************************************************************************)
(* The scenario of 100 closes of 1.0 followed by 50 closes of 2.0, served  *)
(* to the second address of the list.                                      *)
(***************************************************************************)
RiseToken == getTopVolumeBSCTokens[2]

\* EMA21 > EMA55 > EMA144 holds at candle n of the series: the three series
\* computed on the first n closes all have a value at n, strictly descending
RiseAlignedAt(n) ==
    LET prices == SubSeq(RiseCloses, 1, n)
        e21 == At(calculateEMA(prices, PeriodShort), n)
        e55 == At(calculateEMA(prices, PeriodMid), n)
        e144 == At(calculateEMA(prices, PeriodLong), n)
    IN /\ e21 # Undefined /\ e55 # Undefined /\ e144 # Undefined
       /\ e21[1] > e55[1] /\ e55[1] > e144[1]

\* the first candle of the series at which the alignment holds
RiseFirstAligned ==
    CHOOSE n \in 1..Len(RiseCloses) :
        RiseAlignedAt(n) /\ \A m \in 1..(n - 1) : ~RiseAlignedAt(m)

\* the whole series has been served and no execution is in progress
RiseServed ==
    /\ HasWindow(RiseToken)
    /\ Last(klineCache[RiseToken]).timestamp = ScenarioTs(Len(RiseCloses))
    /\ \A r \in Runs : ~InProgress(r)

(***************************************************************************)
(* C26.  As claimed: once the series of 100 closes of 1.0 and 50 closes of *)
(* 2.0 has been served, exactly one signal has been built for the address, *)
(* at the first candle at which EMA21 > EMA55 > EMA144 holds.              *)
(***************************************************************************)
C26_SignalAtFirstAlignment ==
    RiseServed
    => /\ SignalCount(RiseToken) = 1
       /\ SignalTimestamps(RiseToken) = {ScenarioTs(RiseFirstAligned)}

(***************************************************************************)
(* C26, amended.  On that series the alignment first holds at candle 144   *)
(* (index 143), the first candle at which EMA144 has a value and the       *)
(* newest candle of the window of initializeKlineCache: the alignment is   *)
(* true at initialisation and at every later candle, and no signal is      *)
(* built at any candle.                                                    *)
(***************************************************************************)
C26_RiseAlignedAtInitNoSignal ==
    /\ RiseFirstAligned = WindowSize
    /\ HasWindow(RiseToken)
       => /\ evalLog[RiseToken][1] = [timestamp |-> ScenarioTs(RiseFirstAligned), bullish |-> TRUE]
          /\ \A i \in 1..Len(evalLog[RiseToken]) : evalLog[RiseToken][i].bullish
          /\ SignalCount(RiseToken) = 0

\* the whole series has been served: seven evaluations, no signal
C26_Witness ==
    /\ RiseServed
    /\ Len(evalLog[RiseToken]) = Len(RiseCloses) - WindowSize + 1
    /\ Last(evalLog[RiseToken]).timestamp = ScenarioTs(Len(RiseCloses))
    /\ SignalCount(RiseToken) = 0

(***************************************************************************)
(* The interval timer with its clock.  Every call of the callback reads    *)
(* the wall clock; the timer of setInterval drifts, so the readings of     *)
(* successive calls are not tied to each other here.  The upstream fails   *)
(* every request for the latest candle.                                    *)
(***************************************************************************)
TickMinutes == {0, 4, 5, 15}

TickSeconds == {0, 9, 10, 11}

\* variant of IsBoundary: every 15 minutes, as the comment of line 749 has it
IsBoundaryQuarterHour(minutes, seconds) == minutes % 15 = 0 /\ seconds = 10

\* line 760
IsBoundary(minutes, seconds) == minutes % 5 = 0 /\ seconds = 10

\* lines 754-764: one call of the interval callback
TimerCallback(minutes, seconds) ==
    /\ timerStarted
    /\ clock.tick < MaxTicks
    /\ clock' = [tick |-> clock.tick + 1, minutes |-> minutes, seconds |-> seconds]
    /\ IF IsBoundary(minutes, seconds)
       THEN \E r \in Runs : runScheduledAnalysis(r)
       ELSE UNCHANGED <<klineCache, emaStatusCache, isInitialized, initIndex, timerStarted,
                        pc, index, pending, signalLog, notifyLog, evalLog, polled,
                        env, phase, calc>>

TimerNext ==
    \/ FeedInitToken
    \/ InitFinish
    \/ \E minutes \in TickMinutes, seconds \in TickSeconds : TimerCallback(minutes, seconds)
    \/ \E r \in Runs : LatestCandleReturn(r, Failure)
    \/ \E r \in Runs : Rearm(r)

TimerSpec == Init /\ [][TimerNext]_vars

(***************************************************************************)
(* C27.  A step starts an execution of runScheduledAnalysis if and only if *)
(* it is a call of the interval callback whose clock reading has a minute  *)
(* that is a multiple of 5 and second 10; it then starts exactly one, and  *)
(* only after initializeKlineCache has completed.                          *)
(***************************************************************************)
Started == {r \in Runs : pc[r] = "idle" /\ pc'[r] # "idle"}

C28_SignalMatchesNewestCandle ==
    [][\A r \in Runs :
          /\ (pc[r] = "fetch" /\ pc'[r] = "tokenInfo")
             => LET signal == pending'[r][1]
                    window == klineCache'[signal.address]
                IN /\ signal.address = Token(r)
                   /\ signal.ema21 > signal.ema55 /\ signal.ema55 > signal.ema144
                   /\ signal.ema21 = LatestOf(window, PeriodShort)
                   /\ signal.ema55 = LatestOf(window, PeriodMid)
                   /\ signal.ema144 = LatestOf(window, PeriodLong)
                   /\ signal.klineTimestamp = Last(window).timestamp
                   /\ signal.currentPrice = Last(window).close
          /\ (pc[r] = "tokenInfo" /\ pc'[r] # "tokenInfo")
             => /\ Len(signalLog') = Len(signalLog) + 1
                /\ Last(signalLog').signal = pending[r][1]]_vars

\* a signal has been returned for the candle that is the newest of its
\* window, which was appended after the bulk fetch
C28_Witness ==
    \E i \in 1..Len(signalLog) :
        LET signal == signalLog[i].signal
        IN /\ signal.klineTimestamp = Last(klineCache[signal.address]).timestamp
           /\ signal.klineTimestamp > BulkNewestTs
           /\ signal.currentPrice = Last(klineCache[signal.address]).close
           /\ signal.ema21 > signal.ema55 /\ signal.ema55 > signal.ema144

(***************************************************************************)
(* C29.  After every step, every address that has a window has an          *)
(* alignment stored under the timestamp of the newest candle of the        *)
(* window, whatever the cleanup has pruned; and every scheduled evaluation *)
(* of an address finds a stored alignment for the candle that was the      *)
(* newest before it.                                                       *)
(***************************************************************************)
NewestHasStatus(t) ==
    HasWindow(t) => StatusKey(t, Last(klineCache[t]).timestamp) \in DOMAIN emaStatusCache

NoMicrotask == \A r \in Runs : pc[r] # "check"

\* the candle request returns: the rest of updateTokenKlineCache, up to its
\* return
UpdateReturn(r, response) ==
    /\ pc[r] = "fetch"
    /\ LET token == getTopVolumeBSCTokens[index[r]]
           latestKline == getKlineData(response)
           upd == updateTokenKlineCache(klineCache, token, latestKline)
       IN /\ upd.updatedKlines # Null => Appended(klineCache, NumTokens) < MaxNewCandles
          /\ klineCache' = upd.klineCache
          /\ polled' = [token |-> token, latestKline |-> latestKline]
          /\ IF ShouldDetect(upd.updatedKlines)
             THEN /\ pc' = [pc EXCEPT ![r] = "check"]
                  /\ index' = index
             ELSE NextToken(r)
    /\ UNCHANGED <<emaStatusCache, isInitialized, initIndex, timerStarted, pending,
                   signalLog, notifyLog, evalLog, env, phase, calc, clock>>

\* the continuation of line 784: checkBullishSignal up to its await of
\* getTokenInfo
CheckSignal(r) ==
    /\ pc[r] = "check"
    /\ LET token == getTopVolumeBSCTokens[index[r]]
           chk == checkBullishSignal(klineCache, emaStatusCache, token)
       IN /\ emaStatusCache' = chk.emaStatusCache
          /\ evalLog' =
                IF chk.status # Null
                THEN [evalLog EXCEPT ![token] = Append(@, Evaluation(chk.status[1]))]
                ELSE evalLog
          /\ IF chk.signal # Null
             THEN /\ pending' = [pending EXCEPT ![r] = chk.signal]
                  /\ pc' = [pc EXCEPT ![r] = "tokenInfo"]
                  /\ index' = index
             ELSE /\ pending' = pending
                  /\ NextToken(r)
    /\ UNCHANGED <<klineCache, isInitialized, initIndex, timerStarted, signalLog,
                   notifyLog, polled, env, phase, calc, clock>>

EventLoopNext ==
    \/ \E r \in Runs : CheckSignal(r)
    \/ NoMicrotask /\ \E response \in BulkResponses : InitToken(response)
    \/ NoMicrotask /\ InitFinish
    \/ NoMicrotask /\ \E r \in Runs : Tick(r)
    \/ NoMicrotask /\ \E r \in Runs :
          \E response \in LatestResponses(klineCache[getTopVolumeBSCTokens[index[r]]]) :
              UpdateReturn(r, response)
    \/ NoMicrotask /\ \E r \in Runs : TokenInfoReturn(r)
    \/ NoMicrotask /\ \E r \in Runs, answer \in TelegramAnswers : NotifyReturn(r, answer)

EventLoopSpec == Init /\ [][EventLoopNext]_vars

(***************************************************************************)
(* C30.  When executions of runScheduledAnalysis overlap, the step after   *)
(* an append to a window is the alignment write of the same execution for  *)
(* the appended candle: no other execution moves and no window changes in  *)
(* between.  Every change of a window is the append of the polled candle   *)
(* to the window as it is (no update is lost), and the candle is newer     *)
(* than every candle of the window (no candle is appended twice).          *)
(***************************************************************************)
TimestampsOf(window) == {window[i].timestamp : i \in 1..Len(window)}

C30_AppendAndAlignmentNotInterleaved ==
    [][/\ \A r \in Runs :
             pc[r] = "check"
             => /\ pc'[r] # "check"
                /\ \A q \in Runs \ {r} : pc'[q] = pc[q] /\ index'[q] = index[q]
                /\ klineCache' = klineCache
                /\ StatusKey(Token(r), Last(klineCache[Token(r)]).timestamp)
                      \in DOMAIN emaStatusCache'
       /\ \A t \in Tokens :
             (timerStarted /\ klineCache'[t] # klineCache[t])
             => /\ \E r \in Runs : pc[r] = "fetch" /\ Token(r) = t /\ pc'[r] = "check"
                /\ polled'.token = t
                /\ klineCache'[t] = SlideWindow(klineCache[t], polled'.latestKline[1])
                /\ polled'.latestKline[1].timestamp \notin TimestampsOf(klineCache[t])
       /\ NoMicrotask' => \A t \in Tokens : NewestHasStatus(t)']_vars

\* two executions are in progress, one of them has appended a candle to a
\* window and the other has just polled the same address and was served that
\* candle again
C30_Witness ==
    /\ \A r \in Runs : InProgress(r)
    /\ polled # NoPoll
    /\ HasWindow(polled.token)
    /\ polled.latestKline = <<Last(klineCache[polled.token])>>
    /\ Last(klineCache[polled.token]).timestamp > BulkNewestTs
    /\ Len(evalLog[polled.token]) = 2

(***************************************************************************)
(* C31.  As claimed: at every alignment decision of a scheduled cycle the  *)
(* window holds exactly 144 candles, so the EMA144 value of the decision   *)
(* is the arithmetic mean of all cached closes and the recurrence step of  *)
(* line 343 is not applied for period 144.                                 *)
(***************************************************************************)
MeanOfCloses(window) ==
    Div(SumRange(closesOf(window, 1, Len(window)), 1, Len(window)), Len(window))

C31_LongEMAIsMeanOfWindow ==
    [][\A t \in Tokens :
          Evaluates(t)
          => /\ Len(klineCache'[t]) = PeriodLong
             /\ calculateEMAStatus(klineCache'[t])[1].ema144
                    = MeanOfCloses(klineCache'[t])]_vars

(***************************************************************************)
(* C32.  An address that has a window in klineCache has one after every    *)
(* step: no scheduled cycle, failed candle request or stale candle         *)
(* removes a window, so no address goes from READY back to UNINITIALIZED.  *)
(***************************************************************************)
C32_WindowIsNeverRemoved ==
    [][\A t \in Tokens : HasWindow(t) => Len(klineCache'[t]) >= WindowSize]_vars

\* a whole scheduled cycle has ended whose last candle request failed, and
\* every address that was initialised still has its window
C32_Witness ==
    /\ \E r \in Runs : pc[r] = "done"
    /\ polled # NoPoll
    /\ polled.latestKline = <<>>
    /\ polled.token = getTopVolumeBSCTokens[NumTokens]
    /\ HasWindow(polled.token)

(***************************************************************************)
(* The metadata lookups.  getTokenInfo (lines 464-480) calls               *)
(* getTokenFromList and then getTokenPriceInfo with the same maxRetries;   *)
(* each of them requests in a loop of at most maxRetries iterations.  The  *)
(* variable calc holds the position of one call of getTokenInfo, the       *)
(* answers the upstream has given to its requests and what the lookups     *)
(* returned.                                                               *)
(***************************************************************************)
\* the answers to the request of line 510: the request fails (network
\* error, timeout of line 502, HTTP error status), the response has no
\* body (response.data.code then throws inside the try), the body has an
\* error code, code 0 without the BSC token, code 0 with it
ListAnswers == {"transportError", "noBody", "errorCode", "notFound", "found"}

\* the answers to the request of line 585: as above; code '0' comes with an
\* empty data list or with the price data
PriceAnswers == {"transportError", "noBody", "errorCode", "empty", "data"}

\* the argument maxRetries of a call: left out, or a number
RetryArgs == {Undefined} \cup {Some(n) : n \in 0..MaxRetriesArg}

\* the default value of the parameter, lines 464, 485 and 558
maxRetriesOf(arg) == IF arg = Undefined THEN DefaultMaxRetries ELSE arg[1]

\* one iteration of the loop of getTokenFromList, lines 486-546, after its
\* request was answered: the function returns the token found (line 526),
\* leaves the loop (line 535) or, from the catch of lines 537-545, goes on
\* to the next iteration
getTokenFromListAttempt(answer, attempt, maxRetries) ==
    IF answer \in {"transportError", "noBody"}
    THEN [next |-> "continue", result |-> Null]
    ELSE IF answer = "found"
    THEN [next |-> "return", result |-> Some("real")]
    ELSE [next |-> "break", result |-> Null]

\* variant of getTokenPriceInfoAttempt: the catch throws the error of the
\* last attempt again
getTokenPriceInfoAttemptRethrow(answer, attempt, maxRetries) ==
    IF answer = "data" THEN [next |-> "return", result |-> Some("data")]
    ELSE IF answer = "empty" THEN [next |-> "return", result |-> Some("pending")]
    ELSE IF answer = "errorCode"
    THEN IF attempt = maxRetries
         THEN [next |-> "return", result |-> Some("failed")]
         ELSE [next |-> "continue", result |-> Null]
    ELSE IF attempt = maxRetries
         THEN [next |-> "throw", result |-> Null]
         ELSE [next |-> "continue", result |-> Null]

\* one iteration of the loop of getTokenPriceInfo, lines 559-636: price data
\* (line 595), no data (line 603), an error code (lines 610-620) or a caught
\* exception (lines 621-635), the last two returning at the last attempt
getTokenPriceInfoAttempt(answer, attempt, maxRetries) ==
    IF answer = "data" THEN [next |-> "return", result |-> Some("data")]
    ELSE IF answer = "empty" THEN [next |-> "return", result |-> Some("pending")]
    ELSE IF answer = "errorCode"
    THEN IF attempt = maxRetries
         THEN [next |-> "return", result |-> Some("failed")]
         ELSE [next |-> "continue", result |-> Null]
    ELSE IF attempt = maxRetries
         THEN [next |-> "return", result |-> Some("failed")]
         ELSE [next |-> "continue", result |-> Null]

NoLookup ==
    [kind |-> "lookup", arg |-> Undefined, stage |-> "list", attempt |-> 1,
     listRequests |-> 0, priceRequests |-> 0, answers |-> <<>>,
     tokenListInfo |-> Null, priceInfo |-> Null,
     returned |-> FALSE, threw |-> FALSE, result |-> Null]

\* getTokenInfo has been called and enters getTokenFromList
LookupInit ==
    /\ klineCache = [t \in Tokens |-> <<>>]
    /\ emaStatusCache = <<>>
    /\ isInitialized = FALSE
    /\ initIndex = 1
    /\ timerStarted = FALSE
    /\ pc = [r \in Runs |-> "idle"]
    /\ index = [r \in Runs |-> 1]
    /\ pending = [r \in Runs |-> Null]
    /\ signalLog = <<>>
    /\ notifyLog = <<>>
    /\ evalLog = [t \in Tokens |-> <<>>]
    /\ polled = NoPoll
    /\ env = ValidEnv
    /\ phase = "start"
    /\ clock = NoClock
    /\ \E arg \in RetryArgs : calc = [NoLookup EXCEPT !.arg = arg]

\* getTokenFromList, one iteration: the request of line 510 is answered;
\* after the last iteration, or a break, the function returns the default
\* names (line 549)
getTokenFromList(answer) ==
    /\ calc.kind = "lookup"
    /\ calc.stage = "list"
    /\ calc.attempt <= maxRetriesOf(calc.arg)
    /\ LET maxRetries == maxRetriesOf(calc.arg)
           out == getTokenFromListAttempt(answer, calc.attempt, maxRetries)
           requested == [calc EXCEPT !.listRequests = @ + 1,
                                     !.answers = Append(@, answer)]
       IN calc' =
            IF out.next = "throw"
            THEN [requested EXCEPT !.stage = "done", !.threw = TRUE]
            ELSE IF out.next = "continue" /\ calc.attempt + 1 <= maxRetries
            THEN [requested EXCEPT !.attempt = @ + 1]
            ELSE [requested EXCEPT
                    !.stage = "price",
                    !.attempt = 1,
                    !.tokenListInfo =
                        IF out.next = "return" THEN out.result ELSE Some("default")]
    /\ UNCHANGED <<klineCache, emaStatusCache, isInitialized, initIndex, timerStarted,
                   pc, index, pending, signalLog, notifyLog, evalLog, polled, env, phase, clock>>

\* getTokenFromList when the loop has no iteration (maxRetries < 1)
getTokenFromListNoAttempt ==
    /\ calc.kind = "lookup"
    /\ calc.stage = "list"
    /\ calc.attempt > maxRetriesOf(calc.arg)
    /\ calc' = [calc EXCEPT !.stage = "price", !.attempt = 1,
                            !.tokenListInfo = Some("default")]
    /\ UNCHANGED <<klineCache, emaStatusCache, isInitialized, initIndex, timerStarted,
                   pc, index, pending, signalLog, notifyLog, evalLog, polled, env, phase, clock>>

\* getTokenPriceInfo, one iteration: the request of line 585 is answered
getTokenPriceInfo(answer) ==
    /\ calc.kind = "lookup"
    /\ calc.stage = "price"
    /\ calc.attempt <= maxRetriesOf(calc.arg)
    /\ LET maxRetries == maxRetriesOf(calc.arg)
           out == getTokenPriceInfoAttempt(answer, calc.attempt, maxRetries)
           requested == [calc EXCEPT !.priceRequests = @ + 1,
                                     !.answers = Append(@, answer)]
       IN calc' =
            IF out.next = "throw"
            THEN [requested EXCEPT !.stage = "done", !.threw = TRUE]
            ELSE IF out.next = "continue" /\ calc.attempt + 1 <= maxRetries
            THEN [requested EXCEPT !.attempt = @ + 1]
            ELSE [requested EXCEPT
                    !.stage = "merge",
                    !.priceInfo =
                        IF out.next = "return" THEN out.result ELSE Some("failed")]
    /\ UNCHANGED <<klineCache, emaStatusCache, isInitialized, initIndex, timerStarted,
                   pc, index, pending, signalLog, notifyLog, evalLog, polled, env, phase, clock>>

\* getTokenPriceInfo when the loop has no iteration: the return of line 638
getTokenPriceInfoNoAttempt ==
    /\ calc.kind = "lookup"
    /\ calc.stage = "price"
    /\ calc.attempt > maxRetriesOf(calc.arg)
    /\ calc' = [calc EXCEPT !.stage = "merge", !.priceInfo = Some("failed")]
    /\ UNCHANGED <<klineCache, emaStatusCache, isInitialized, initIndex, timerStarted,
                   pc, index, pending, signalLog, notifyLog, evalLog, polled, env, phase, clock>>

\* lines 472-479: getTokenInfo returns the merged object
getTokenInfo ==
    /\ calc.kind = "lookup"
    /\ calc.stage = "merge"
    /\ calc' = [calc EXCEPT
                  !.stage = "done",
                  !.returned = TRUE,
                  !.result = Some([name |-> calc.tokenListInfo[1],
                                   price |-> calc.priceInfo[1]])]
    /\ UNCHANGED <<klineCache, emaStatusCache, isInitialized, initIndex, timerStarted,
                   pc, index, pending, signalLog, notifyLog, evalLog, polled, env, phase, clock>>

LookupNext ==
    \/ \E answer \in ListAnswers : getTokenFromList(answer)
    \/ getTokenFromListNoAttempt
    \/ \E answer \in PriceAnswers : getTokenPriceInfo(answer)
    \/ getTokenPriceInfoNoAttempt
    \/ getTokenInfo

\* every request ends (timeout of lines 502 and 577) and every sleep ends
LookupSpec == LookupInit /\ [][LookupNext]_vars /\ WF_vars(LookupNext)

(***************************************************************************)
(* C33.  Whatever the upstream answers, getTokenFromList and               *)
(* getTokenPriceInfo each issue at most maxRetries requests (3 when the    *)
(* argument is left out), neither throws, each returns a result object,    *)
(* and the call of getTokenInfo that runs them returns.                    *)
(***************************************************************************)
LookupBounded ==
    /\ calc.kind = "lookup"
    /\ calc.listRequests <= maxRetriesOf(calc.arg)
    /\ calc.priceRequests <= maxRetriesOf(calc.arg)
    /\ calc.arg = Undefined => (calc.listRequests <= 3 /\ calc.priceRequests <= 3)
    /\ ~calc.threw
    /\ calc.stage \in {"price", "merge", "done"} => calc.tokenListInfo # Null
    /\ calc.stage \in {"merge", "done"} => calc.priceInfo # Null

C33_LookupsBoundedAndReturn ==
    /\ []LookupBounded
    /\ <>(calc.returned /\ calc.result # Null)

\* a call with the default maxRetries whose six requests all failed (three
\* failed requests for the list, then error codes and a failed request for
\* the price) has returned the default names and the failure texts
C33_Witness ==
    /\ calc.kind = "lookup"
    /\ calc.arg = Undefined
    /\ calc.listRequests = 3
    /\ calc.priceRequests = 3
    /\ calc.answers = <<"transportError", "noBody", "transportError",
                        "errorCode", "transportError", "errorCode">>
    /\ calc.returned
    /\ calc.result = Some([name |-> "default", price |-> "failed"])

(***************************************************************************)
(* The class as a module (module.exports, line 1121): the program that     *)
(* requires it calls initializeKlineCache once and startScheduledTask once,*)
(* in any order, so that the interval callback may call                    *)
(* runScheduledAnalysis while the initialisation is under way.             *)
(***************************************************************************)
\* startScheduledTask, lines 751-765: the interval is installed
startScheduledTask ==
    /\ ~timerStarted
    /\ timerStarted' = TRUE
    /\ polled' = NoPoll
    /\ UNCHANGED <<klineCache, emaStatusCache, isInitialized, initIndex, pc, index,
                   pending, signalLog, notifyLog, evalLog, env, phase, calc, clock>>

\* the end of initializeKlineCache, line 235, after the last iteration of
\* its loop
initializeKlineCacheReturn ==
    /\ initIndex = NumTokens + 1
    /\ ~isInitialized
    /\ isInitialized' = TRUE
    /\ polled' = NoPoll
    /\ UNCHANGED <<klineCache, emaStatusCache, initIndex, timerStarted, pc, index,
                   pending, signalLog, notifyLog, evalLog, env, phase, calc, clock>>

EmbedNext ==
    \/ startScheduledTask
    \/ \E response \in BulkResponses : InitToken(response)
    \/ initializeKlineCacheReturn
    \/ \E r \in Runs : Tick(r)
    \/ \E r \in Runs :
          \E response \in LatestResponses(klineCache[getTopVolumeBSCTokens[index[r]]]) :
              LatestCandle(r, response)
    \/ \E r \in Runs : TokenInfoReturn(r)
    \/ \E r \in Runs, answer \in TelegramAnswers : NotifyReturn(r, answer)

EmbedSpec == Init /\ [][EmbedNext]_vars

(***************************************************************************)
(* C34.  While isInitialized is false, a call of runScheduledAnalysis      *)
(* returns without a candle request, leaves klineCache, emaStatusCache and *)
(* the signals untouched and notifies nobody; isInitialized becomes true   *)
(* only when initializeKlineCache has gone through every address of the    *)
(* list.                                                                   *)
(***************************************************************************)
C34_InertUntilInitialized ==
    [][/\ (~isInitialized /\ pc' # pc)
          => /\ \A r \in Runs : pc'[r] \in {"idle", "done"}
             /\ polled' = NoPoll
             /\ UNCHANGED <<klineCache, emaStatusCache, evalLog, pending,
                            signalLog, notifyLog>>
       /\ (~isInitialized /\ isInitialized') => initIndex = NumTokens + 1]_vars

\* the interval callback has called runScheduledAnalysis before the
\* initialisation has ended, while an address already had its window: the
\* call has returned and there was no poll
C34_Witness ==
    /\ ~isInitialized
    /\ timerStarted
    /\ \E r \in Runs : pc[r] = "done"
    /\ \E t \in Tokens : HasWindow(t)
    /\ initIndex <= NumTokens
    /\ polled = NoPoll

(***************************************************************************)
(* The stateless detectors on their own: checkEMASignal of the main file   *)
(* (lines 861-998, called by runAnalysis) and checkEMASignal of part_000   *)
(* (lines 132-184), applied to what their candle request returned.  The    *)
(* closes fall from a first level to a second one and vary over the last   *)
(* MaxTail candles.                                                        *)
(***************************************************************************)
\* the candles at which the closes leave the first level
DetectFalls == {0, 86}

\* the last closes: any prices, or no numbers at all
DetectTails == [1..MaxTail -> CalcPrices] \cup {[i \in 1..MaxTail |-> NonNumeric]}

\* rows 1..n in ascending time: close high up to candle fall, then low, then
\* the closes of tail
DetectRows(n, high, fall, low, tail) ==
    [i \in 1..n |->
        Row(i, IF i > n - MaxTail THEN tail[i - (n - MaxTail)]
               ELSE IF i <= fall THEN high ELSE low)]

DetectInputs ==
    {DetectRows(n, high, fall, low, tail) :
        n \in (WindowSize - 1)..(FetchLimit + MaxExtra),
        high \in CalcPrices,
        fall \in DetectFalls,
        low \in CalcPrices,
        tail \in DetectTails}

\* variant of Prev3Index: the candle two before the latest
Prev3IndexNearer(latestIndex) == latestIndex - 2

\* line 884
Prev3Index(latestIndex) == latestIndex - 3

\* (a - b) / b > 0.001, lines 918-919 and 951; the quotient by zero is
\* Infinity for a > 0 and NaN for a = 0
GapAbove(a, b) ==
    IF a = NaN \/ b = NaN THEN FALSE
    ELSE IF b = 0 THEN a > 0
    ELSE IF b > 0 THEN (a - b) * 1000 > b
    ELSE (a - b) * 1000 < b

\* checkEMASignal of the main file, lines 861-998, after getKlineData has
\* returned klineData: the signal, or null, and the statement that returned
checkEMASignal(klineData) ==
    IF Len(klineData) < WindowSize
    THEN [signal |-> Null, path |-> "length"]
    ELSE LET closePrices == closesOf(klineData, 1, Len(klineData))
             ema21 == calculateEMA(closePrices, PeriodShort)
             ema55 == calculateEMA(closePrices, PeriodMid)
             ema144 == calculateEMA(closePrices, PeriodLong)
             latestIndex == Len(closePrices)
             prevIndex == latestIndex - 1
             prev2Index == latestIndex - 2
             prev3Index == Prev3Index(latestIndex)
         IN IF \/ At(ema21, latestIndex) = Null \/ At(ema21, prev3Index) = Null
               \/ At(ema55, latestIndex) = Null \/ At(ema55, prev3Index) = Null
               \/ At(ema144, latestIndex) = Null \/ At(ema144, prev3Index) = Null
            THEN [signal |-> Null, path |-> "ema"]
            ELSE LET latestEMA21 == ema21[latestIndex][1]
                     latestEMA55 == ema55[latestIndex][1]
                     latestEMA144 == ema144[latestIndex][1]
                     prevEMA21 == ema21[prevIndex][1]
                     prevEMA55 == ema55[prevIndex][1]
                     currentBullish ==
                         Gt(latestEMA21, latestEMA55) /\ Gt(latestEMA55, latestEMA144)
                     ema21Rising ==
                         /\ Gt(latestEMA21, ema21[prev2Index][1])
                         /\ Gt(ema21[prev2Index][1], ema21[prev3Index][1])
                     ema55Rising == Gt(latestEMA55, ema55[prev2Index][1])
                     priceAboveEMA21 == Gt(closePrices[latestIndex], latestEMA21)
                     priceAboveEMA55 == Gt(closePrices[latestIndex], latestEMA55)
                     recentBullishCount ==
                         Cardinality({i \in {latestIndex, prevIndex, prev2Index} :
                                        /\ Gt(ema21[i][1], ema55[i][1])
                                        /\ Gt(ema55[i][1], ema144[i][1])})
                     signalReason ==
                         IF /\ currentBullish /\ ema21Rising /\ ema55Rising
                            /\ recentBullishCount >= 1 /\ recentBullishCount <= 2
                         THEN "newlyAligned"
                         ELSE IF /\ currentBullish /\ recentBullishCount >= 2
                                 /\ priceAboveEMA21 /\ priceAboveEMA55
                                 /\ GapAbove(latestEMA21, latestEMA55)
                                 /\ GapAbove(latestEMA55, latestEMA144)
                         THEN "stableAligned"
                         ELSE IF /\ Gt(latestEMA21, latestEMA55)
                                 /\ Leq(prevEMA21, prevEMA55)
                                 /\ ema21Rising /\ priceAboveEMA21
                         THEN "goldenCross"
                         ELSE ""
                 IN IF signalReason # ""
                    THEN [signal |-> Some([currentPrice |-> closePrices[latestIndex],
                                           ema21 |-> latestEMA21,
                                           ema55 |-> latestEMA55,
                                           ema144 |-> latestEMA144,
                                           signalReason |-> signalReason,
                                           klineTimestamp |-> klineData[latestIndex].timestamp]),
                          path |-> "signal"]
                    ELSE [signal |-> Null, path |-> "none"]

\* calculateEMA of part_000, lines 118-129: null for fewer prices than the
\* period, else the last value of the recurrence of line 125, which starts
\* from the first price and runs over all the others
calculateEMAScalar(prices, period) ==
    IF Len(prices) < period THEN Null
    ELSE IF Len(prices) = 1 THEN Some(prices[1])
    ELSE Last(emaLoop(prices, period, prices[1], 2, Len(prices)))

\* parseFloat(candle[4]) of rows lo..hi, line 140 of part_000
RECURSIVE parseCloses(_, _, _)
parseCloses(rows, lo, hi) ==
    IF lo > hi THEN <<>>
    ELSE IF lo = hi THEN <<parseField(rows[lo], 5)>>
    ELSE LET mid == (lo + hi) \div 2
         IN parseCloses(rows, lo, mid) \o parseCloses(rows, mid + 1, hi)

\* !ema of line 147 of part_000: null, 0 and NaN are falsy
Falsy(ema) == ema = Null \/ ema[1] = 0 \/ ema[1] = NaN

\* a > b on two results of calculateEMAScalar; a null operand is 0
GtScalar(a, b) ==
    Gt(IF a = Null THEN 0 ELSE a[1], IF b = Null THEN 0 ELSE b[1])

\* variant of EnoughCandles: the threshold is the longest period
EnoughCandlesForPeriod(klineData) == Len(klineData) >= PeriodLong

\* line 135 of part_000
EnoughCandles(klineData) == Len(klineData) >= FetchLimit

\* checkEMASignal of part_000, lines 132-184, after getKlineData has
\* returned: fetched is false when it returned null
checkEMASignalStateless(fetched, klineData) ==
    IF ~fetched \/ ~EnoughCandles(klineData)
    THEN [signal |-> Null, path |-> "length"]
    ELSE LET closePrices == parseCloses(klineData, 1, Len(klineData))
             ema21 == calculateEMAScalar(closePrices, PeriodShort)
             ema55 == calculateEMAScalar(closePrices, PeriodMid)
             ema144 == calculateEMAScalar(closePrices, PeriodLong)
         IN IF Falsy(ema21) \/ Falsy(ema55) \/ Falsy(ema144)
            THEN [signal |-> Null, path |-> "ema"]
            ELSE LET isBullishAlignment == GtScalar(ema21, ema55) /\ GtScalar(ema55, ema144)
                     prevClosePrices == SubSeq(closePrices, 1, Len(closePrices) - 1)
                     prevEma21 == calculateEMAScalar(prevClosePrices, PeriodShort)
                     prevEma55 == calculateEMAScalar(prevClosePrices, PeriodMid)
                     prevEma144 == calculateEMAScalar(prevClosePrices, PeriodLong)
                     wasPrevBullish ==
                         GtScalar(prevEma21, prevEma55) /\ GtScalar(prevEma55, prevEma144)
                 IN IF isBullishAlignment /\ ~wasPrevBullish
                    THEN [signal |-> Some([latestPrice |-> closePrices[Len(closePrices)],
                                           ema21 |-> ema21[1],
                                           ema55 |-> ema55[1],
                                           ema144 |-> ema144[1]]),
                          path |-> "signal"]
                    ELSE [signal |-> Null, path |-> "none"]

NoDetect ==
    [kind |-> "none", fetched |-> FALSE, rows |-> <<>>,
     returned |-> FALSE, signal |-> Null, path |-> ""]

\* a call of one of the two detectors whose candle request has been answered
\* with a failure or with rows
DetectInit ==
    /\ klineCache = [t \in Tokens |-> <<>>]
    /\ emaStatusCache = <<>>
    /\ isInitialized = FALSE
    /\ initIndex = 1
    /\ timerStarted = FALSE
    /\ pc = [r \in Runs |-> "idle"]
    /\ index = [r \in Runs |-> 1]
    /\ pending = [r \in Runs |-> Null]
    /\ signalLog = <<>>
    /\ notifyLog = <<>>
    /\ evalLog = [t \in Tokens |-> <<>>]
    /\ polled = NoPoll
    /\ env = ValidEnv
    /\ phase = "start"
    /\ clock = NoClock
    /\ \E kind \in {"main", "stateless"} :
          \/ calc = [NoDetect EXCEPT !.kind = kind]
          \/ \E rows \in DetectInputs :
                calc = [NoDetect EXCEPT !.kind = kind, !.fetched = TRUE, !.rows = rows]

\* the main file: getKlineData maps the rows to candles (lines 182-189) and
\* yields [] on a failure; checkEMASignal returns
CheckEMASignal ==
    /\ calc.kind = "main"
    /\ ~calc.returned
    /\ LET klineData == [i \in 1..Len(calc.rows) |-> candleOf(calc.rows[i])]
           out == checkEMASignal(klineData)
       IN calc' = [calc EXCEPT !.returned = TRUE, !.signal = out.signal, !.path = out.path]
    /\ UNCHANGED <<klineCache, emaStatusCache, isInitialized, initIndex, timerStarted,
                   pc, index, pending, signalLog, notifyLog, evalLog, polled, env, phase, clock>>

\* part_000: checkEMASignal returns
CheckEMASignalStateless ==
    /\ calc.kind = "stateless"
    /\ ~calc.returned
    /\ LET out == checkEMASignalStateless(calc.fetched, calc.rows)
       IN calc' = [calc EXCEPT !.returned = TRUE, !.signal = out.signal, !.path = out.path]
    /\ UNCHANGED <<klineCache, emaStatusCache, isInitialized, initIndex, timerStarted,
                   pc, index, pending, signalLog, notifyLog, evalLog, polled, env, phase, clock>>

DetectNext ==
    \/ CheckEMASignal
    \/ CheckEMASignalStateless

DetectSpec == DetectInit /\ [][DetectNext]_vars

(***************************************************************************)
(* C35.  checkEMASignal of the main file returns no signal for fewer than  *)
(* 147 candles: its length guard rejects fewer than 144, and 144 to 146    *)
(* candles pass that guard and are rejected by the null check of the EMA   *)
(* entries.                                                                *)
(***************************************************************************)
C35_NoSignalBelow147 ==
    (calc.kind = "main" /\ calc.returned /\ Len(calc.rows) < FetchLimit)
    => /\ calc.signal = Null
       /\ calc.path = IF Len(calc.rows) < WindowSize THEN "length" ELSE "ema"

\* 146 candles whose last two closes are higher have passed the length
\* guard and were rejected for their EMA entries; the same closes with one
\* candle more in front give a signal
C35_Witness ==
    /\ calc.kind = "main" /\ calc.returned
    /\ Len(calc.rows) = FetchLimit - 1
    /\ \A i \in 1..Len(calc.rows) :
          calc.rows[i][5] = IF i >= Len(calc.rows) - 1 THEN 2000000 ELSE 1000000
    /\ calc.signal = Null
    /\ calc.path = "ema"
    /\ checkEMASignal([i \in 1..FetchLimit |->
                         [timestamp |-> i,
                          close |-> IF i >= FetchLimit - 1 THEN 2000000 ELSE 1000000]]).signal
           # Null

(***************************************************************************)
(* C36.  As claimed: every signal that checkEMASignal of the main file     *)
(* returns has ema21 > ema55 > ema144 at the latest candle.                *)
(***************************************************************************)
C36_SignalOnlyWhileAligned ==
    (calc.kind = "main" /\ calc.returned /\ calc.signal # Null)
    => /\ calc.signal[1].ema21 > calc.signal[1].ema55
       /\ calc.signal[1].ema55 > calc.signal[1].ema144

(***************************************************************************)
(* C37.  checkEMASignal of part_000 returns a signal exactly when at least *)
(* 147 candles were fetched, the EMA21, EMA55 and EMA144 of the whole      *)
(* close series are all non-zero, ema21 > ema55 > ema144 holds for the     *)
(* whole series and does not hold for the series without its last close.   *)
(***************************************************************************)
ScalarEMA(closes, period) == calculateEMAScalar(closes, period)[1]

AlignedOver(closes) ==
    /\ Gt(ScalarEMA(closes, PeriodShort), ScalarEMA(closes, PeriodMid))
    /\ Gt(ScalarEMA(closes, PeriodMid), ScalarEMA(closes, PeriodLong))

C37_StatelessSignalIffNewlyAligned ==
    (calc.kind = "stateless" /\ calc.returned)
    => ((calc.signal # Null)
        <=> /\ calc.fetched
            /\ Len(calc.rows) >= 147
            /\ LET closes == parseCloses(calc.rows, 1, Len(calc.rows))
               IN /\ ScalarEMA(closes, PeriodShort) # 0
                  /\ ScalarEMA(closes, PeriodMid) # 0
                  /\ ScalarEMA(closes, PeriodLong) # 0
                  /\ AlignedOver(closes)
                  /\ ~AlignedOver(SubSeq(closes, 1, Len(closes) - 1)))

\* 147 candles closing at 1.0 up to the last one, which closes at 2.0: the
\* alignment appears with the last close and the signal is returned
C37_Witness ==
    /\ calc.kind = "stateless" /\ calc.returned
    /\ Len(calc.rows) = 147
    /\ \A i \in 1..147 : calc.rows[i][5] = IF i = 147 THEN 2000000 ELSE 1000000
    /\ calc.signal # Null
    /\ calc.signal[1].ema21 > calc.signal[1].ema55
    /\ calc.signal[1].ema55 > calc.signal[1].ema144

TypeOK ==
    /\ isInitialized \in BOOLEAN
    /\ env \in Environments
    /\ phase \in {"start", "running", "exited"}
    /\ \A t \in Tokens : Len(klineCache[t]) <= WindowSize + MaxExtra

====
